---- MODULE Spec2Model ----
(***************************************************************************)
(* The HTML structural core of the "Who Am I" extension:                   *)
(*   - findCompleteHtmlElement (src/src/extension.ts), the element-range   *)
(*     locator behind the remove-element command;                          *)
(*   - parseHTMLHierarchy (src/src/TreeDataProvider.ts), the tree builder  *)
(*     behind the DOM visualizer view;                                     *)
(*   - the remove-element command that joins the two;                      *)
(*   - the backup and recovery of the workspace's original files;          *)
(*   - the web page script (class WhoAmI) and its requests in flight.      *)
(* A document is a sequence of one-character strings; offsets are 0-based  *)
(* as in the source.                                                       *)
(***************************************************************************)
EXTENDS Integers, Sequences, FiniteSets, TLC

VARIABLES
  \* the open document, the tree the view shows, the position of the running
  \* command or call, and the locals of helloworld.removeHtmlElement
  text, rootElements, pc, cursorOffset, fullText, elementRange,
  \* the locals of parseHTMLHierarchy: the tagRegex object (its lastIndex)
  \* and the objects created so far with the stack and the root list
  tagRegex, parse,
  \* the locals of findCompleteHtmlElement (i, tagStart, depth, searchStart)
  locals,
  \* the editor's file, who_am_i.html of the workspace root on disk, the
  \* last message shown
  activeFile, rootFile, message,
  \* the workspace's files on disk, the whoAmI workspace settings, for
  \* every file the content read from it when it was first backed up, and
  \* the path of the active editor's file
  files, backups, firstBackup, editor,
  \* the web page's WhoAmI object, the elements of its document, and the
  \* requests in flight
  app, page, pending

cmdVars == <<text, rootElements, pc, cursorOffset, fullText, elementRange>>

buildVars == <<tagRegex, parse>>

locateVars == <<locals>>

envVars == <<activeFile, rootFile, message>>

backupVars == <<files, backups, firstBackup, editor>>

pageVars == <<app, page, pending>>

vars == <<cmdVars, buildVars, locateVars, envVars, backupVars, pageVars>>

----------------------------------------------------------------------------
(* Characters and strings                                                  *)

LowerLetters == <<"a","b","c","d","e","f","g","h","i","j","k","l","m",
                  "n","o","p","q","r","s","t","u","v","w","x","y","z">>

UpperLetters == <<"A","B","C","D","E","F","G","H","I","J","K","L","M",
                  "N","O","P","Q","R","S","T","U","V","W","X","Y","Z">>

Digits == {"0","1","2","3","4","5","6","7","8","9"}

Letters == {LowerLetters[k] : k \in 1..26} \cup {UpperLetters[k] : k \in 1..26}

\* [a-zA-Z]
IsLetter(c) == c \in Letters

\* [a-zA-Z0-9\-]
IsNameChar(c) == IsLetter(c) \/ c \in Digits \/ c = "-"

\* \w
IsWordChar(c) == IsLetter(c) \/ c \in Digits \/ c = "_"

\* \s, for the white space a document of the model can hold
IsSpace(c) == c \in {" ", "\t", "\n", "\r"}

\* String.prototype.toLowerCase on one character, and on a string
LowerOfUpper ==
  [c \in {UpperLetters[k] : k \in 1..26} |->
     LowerLetters[CHOOSE k \in 1..26 : UpperLetters[k] = c]]

LowerChar(c) == IF c \in DOMAIN LowerOfUpper THEN LowerOfUpper[c] ELSE c

toLowerCase(s) == [k \in DOMAIN s |-> LowerChar(s[k])]

\* text[i]: a read outside the string gives undefined, equal to no character
Undefined == "undefined"

At(s, i) == IF i >= 0 /\ i < Len(s) THEN s[i + 1] ELSE Undefined

\* text.substring(a, b) for 0 <= a
Substring(s, a, b) ==
  LET hi == IF b > Len(s) THEN Len(s) ELSE b
  IN  IF a >= hi THEN <<>> ELSE SubSeq(s, a + 1, hi)

\* does pat occur in s at offset i
OccursAt(s, pat, i) ==
  /\ i >= 0
  /\ i + Len(pat) <= Len(s)
  /\ \A k \in 1..Len(pat) : s[i + k] = pat[k]

\* text.indexOf(pat, from) for from >= 0
RECURSIVE indexOf(_, _, _)
indexOf(s, pat, from) ==
  IF from + Len(pat) > Len(s) THEN -1
  ELSE IF OccursAt(s, pat, from) THEN from
  ELSE indexOf(s, pat, from + 1)

\* the end (exclusive) of the longest run of [a-zA-Z0-9\-], and of \w, that
\* starts at offset i
RECURSIVE NameRunEnd(_, _)
NameRunEnd(s, i) ==
  IF i < Len(s) /\ IsNameChar(s[i + 1]) THEN NameRunEnd(s, i + 1) ELSE i

RECURSIVE WordRunEnd(_, _)
WordRunEnd(s, i) ==
  IF i < Len(s) /\ IsWordChar(s[i + 1]) THEN WordRunEnd(s, i + 1) ELSE i

----------------------------------------------------------------------------
(* findCompleteHtmlElement                                                 *)

Null == [found |-> FALSE, start |-> -1, end |-> -1]

ElementRange(s, e) == [found |-> TRUE, start |-> s, end |-> e]

voidElements ==
  { <<"a","r","e","a">>, <<"b","a","s","e">>, <<"b","r">>, <<"c","o","l">>,
    <<"e","m","b","e","d">>, <<"h","r">>, <<"i","m","g">>,
    <<"i","n","p","u","t">>, <<"l","i","n","k">>, <<"m","e","t","a">>,
    <<"s","o","u","r","c","e">>, <<"t","r","a","c","k">>, <<"w","b","r">> }

\* a variant of the pattern without the leading letter (/^<[^>]*>/)
tagMatchAnyName(s, i) ==
  /\ At(s, i) = "<"
  /\ indexOf(s, <<">">>, i + 1) # -1

\* remainingText.match(/^<([a-zA-Z][a-zA-Z0-9\-]*)[^>]*>/) with
\* remainingText = text.substring(i): is there a match
tagMatch(s, i) ==
  /\ At(s, i) = "<"
  /\ IsLetter(At(s, i + 1))
  /\ indexOf(s, <<">">>, i + 2) # -1

\* tagMatch[1].toLowerCase()
tagNameAt(s, i) == toLowerCase(Substring(s, i + 1, NameRunEnd(s, i + 1)))

\* text.substring(i, i + 4) === '<!--' || text[i + 1] === '/'
SkipCommentOrClosing(s, i) ==
  Substring(s, i, i + 4) = <<"<","!","-","-">> \/ At(s, i + 1) = "/"

\* the inner while loop of the backward search: the start of the tag that
\* the '>' at offset i ends
RECURSIVE tagStartPosOf(_, _)
tagStartPosOf(s, p) ==
  IF p > 0 /\ At(s, p) # "<" THEN tagStartPosOf(s, p - 1) ELSE p

\* the backward loop, for (let i = offset; i >= 0; i--): the tagStart it
\* leaves, -1 when it ends without an opening tag
RECURSIVE BackwardSearch(_, _)
BackwardSearch(s, i) ==
  IF i < 0 THEN -1
  ELSE IF At(s, i) = "<" /\ i < Len(s) - 1
    THEN IF SkipCommentOrClosing(s, i) THEN BackwardSearch(s, i - 1)
         ELSE IF tagMatch(s, i) THEN i
         ELSE BackwardSearch(s, i - 1)
  ELSE IF At(s, i) = ">" /\ i > 0 /\ At(s, i - 1) # "/"
    THEN IF At(s, tagStartPosOf(s, i) + 1) = "/" THEN -1
         ELSE BackwardSearch(s, i - 1)
  ELSE BackwardSearch(s, i - 1)

\* the forward loop, for (let i = offset; i < text.length; i++)
RECURSIVE ForwardSearch(_, _)
ForwardSearch(s, i) ==
  IF i >= Len(s) THEN -1
  ELSE IF At(s, i) = "<" /\ i < Len(s) - 1
            /\ ~SkipCommentOrClosing(s, i) /\ tagMatch(s, i)
    THEN i
  ELSE ForwardSearch(s, i + 1)

\* a variant of the anchor search whose backward loop starts one character
\* before the offset (let i = offset - 1)
FindAnchorBeforeOffset(s, offset) ==
  LET back == BackwardSearch(s, offset - 1)
  IN  IF back # -1 THEN back ELSE ForwardSearch(s, offset)

\* the anchor: tagStart after both searches (-1 when neither found one)
FindAnchor(s, offset) ==
  LET back == BackwardSearch(s, offset)
  IN  IF back # -1 THEN back ELSE ForwardSearch(s, offset)

\* new RegExp(`<${tagName}(?:\\s|>)`, 'i') at offset p
nextOpenPatternAt(s, tagName, p) ==
  /\ At(s, p) = "<"
  /\ p + 1 + Len(tagName) < Len(s)
  /\ toLowerCase(Substring(s, p + 1, p + 1 + Len(tagName))) = toLowerCase(tagName)
  /\ (IsSpace(At(s, p + 1 + Len(tagName))) \/ At(s, p + 1 + Len(tagName)) = ">")

\* searchStart + nextOpenPattern.exec(text.substring(searchStart)).index, or -1
RECURSIVE nextOpenPosFrom(_, _, _)
nextOpenPosFrom(s, tagName, searchStart) ==
  IF searchStart >= Len(s) THEN -1
  ELSE IF nextOpenPatternAt(s, tagName, searchStart) THEN searchStart
  ELSE nextOpenPosFrom(s, tagName, searchStart + 1)

\* `</${tagName}>`
closingTagOf(tagName) == <<"<", "/">> \o tagName \o <<">">>

\* a variant of the depth loop whose end position is one too far
\* (endPos = nextClosePos + closingTag.length + 1)
RECURSIVE CloseSearchEndOffByOne(_, _, _, _, _)
CloseSearchEndOffByOne(s, tagName, tagStart, depth, searchStart) ==
  IF ~(depth > 0 /\ searchStart < Len(s)) THEN Null
  ELSE
    LET nextOpenPos  == nextOpenPosFrom(s, tagName, searchStart)
        nextClosePos == indexOf(s, closingTagOf(tagName), searchStart)
    IN  IF nextClosePos = -1 THEN Null
        ELSE IF nextOpenPos # -1 /\ nextOpenPos < nextClosePos
          THEN CloseSearchEndOffByOne(s, tagName, tagStart, depth + 1,
                                      nextOpenPos + Len(tagName) + 1)
        ELSE IF depth - 1 = 0
          THEN ElementRange(tagStart,
                            nextClosePos + Len(closingTagOf(tagName)) + 1)
        ELSE CloseSearchEndOffByOne(s, tagName, tagStart, depth - 1,
                                    nextClosePos + Len(closingTagOf(tagName)))

\* a variant of the depth loop that, when no closing tag is left, returns
\* the range up to the end of the text instead of null
RECURSIVE CloseSearchToEndOfText(_, _, _, _, _)
CloseSearchToEndOfText(s, tagName, tagStart, depth, searchStart) ==
  IF ~(depth > 0 /\ searchStart < Len(s)) THEN Null
  ELSE
    LET nextOpenPos  == nextOpenPosFrom(s, tagName, searchStart)
        nextClosePos == indexOf(s, closingTagOf(tagName), searchStart)
    IN  IF nextClosePos = -1 THEN ElementRange(tagStart, Len(s))
        ELSE IF nextOpenPos # -1 /\ nextOpenPos < nextClosePos
          THEN CloseSearchToEndOfText(s, tagName, tagStart, depth + 1,
                                      nextOpenPos + Len(tagName) + 1)
        ELSE IF depth - 1 = 0
          THEN ElementRange(tagStart, nextClosePos + Len(closingTagOf(tagName)))
        ELSE CloseSearchToEndOfText(s, tagName, tagStart, depth - 1,
                                    nextClosePos + Len(closingTagOf(tagName)))

\* the depth loop, while (depth > 0 && searchStart < text.length)
RECURSIVE CloseSearch(_, _, _, _, _)
CloseSearch(s, tagName, tagStart, depth, searchStart) ==
  IF ~(depth > 0 /\ searchStart < Len(s)) THEN Null
  ELSE
    LET nextOpenPos  == nextOpenPosFrom(s, tagName, searchStart)
        nextClosePos == indexOf(s, closingTagOf(tagName), searchStart)
    IN  IF nextClosePos = -1 THEN Null
        ELSE IF nextOpenPos # -1 /\ nextOpenPos < nextClosePos
          THEN CloseSearch(s, tagName, tagStart, depth + 1,
                           nextOpenPos + Len(tagName) + 1)
        ELSE IF depth - 1 = 0
          THEN ElementRange(tagStart, nextClosePos + Len(closingTagOf(tagName)))
        ELSE CloseSearch(s, tagName, tagStart, depth - 1,
                         nextClosePos + Len(closingTagOf(tagName)))

\* the part of findCompleteHtmlElement after the anchor search
RangeOfAnchor(s, tagStart) ==
  LET tagName       == tagNameAt(s, tagStart)
      openingTagEnd == indexOf(s, <<">">>, tagStart)
  IN  IF openingTagEnd = -1 THEN Null
      ELSE IF Substring(s, openingTagEnd - 1, openingTagEnd + 1) = <<"/", ">">>
        THEN ElementRange(tagStart, openingTagEnd + 1)
      ELSE IF tagName \in voidElements
        THEN ElementRange(tagStart, openingTagEnd + 1)
      ELSE CloseSearch(s, tagName, tagStart, 1, openingTagEnd + 1)

findCompleteHtmlElement(s, offset) ==
  LET tagStart == FindAnchor(s, offset)
  IN  IF tagStart = -1 \/ tagNameAt(s, tagStart) = <<>> THEN Null
      ELSE RangeOfAnchor(s, tagStart)

----------------------------------------------------------------------------
(* parseHTMLHierarchy                                                      *)

\* a variant of the set that lacks 'br'
selfClosingTagsWithoutBr ==
  { <<"i","m","g">>, <<"h","r">>, <<"i","n","p","u","t">>,
    <<"m","e","t","a">>, <<"l","i","n","k">>, <<"s","o","u","r","c","e">>,
    <<"a","r","e","a">>, <<"b","a","s","e">>, <<"c","o","l">>,
    <<"e","m","b","e","d">>, <<"t","r","a","c","k">>, <<"w","b","r">> }

selfClosingTags ==
  { <<"i","m","g">>, <<"b","r">>, <<"h","r">>, <<"i","n","p","u","t">>,
    <<"m","e","t","a">>, <<"l","i","n","k">>, <<"s","o","u","r","c","e">>,
    <<"a","r","e","a">>, <<"b","a","s","e">>, <<"c","o","l">>,
    <<"e","m","b","e","d">>, <<"t","r","a","c","k">>, <<"w","b","r">> }

\* where the tag name starts in a match of tagRegex at p: after the optional '/'
TagNameStart(s, p) == IF At(s, p + 1) = "/" THEN p + 2 ELSE p + 1

\* does /<\/?(\w+)([^>]*)>/ match at offset p
tagRegexAt(s, p) ==
  /\ At(s, p) = "<"
  /\ IsWordChar(At(s, TagNameStart(s, p)))
  /\ indexOf(s, <<">">>, TagNameStart(s, p) + 1) # -1

\* tagRegex.exec(htmlContent) from lastIndex: the index of the match, or -1
RECURSIVE tagRegexExec(_, _)
tagRegexExec(s, lastIndex) ==
  IF lastIndex >= Len(s) THEN -1
  ELSE IF tagRegexAt(s, lastIndex) THEN lastIndex
  ELSE tagRegexExec(s, lastIndex + 1)

\* the match at p: match[0], match[1].toLowerCase(), match[2] and the new lastIndex
tagRegexMatch(s, p) ==
  LET nameStart == TagNameStart(s, p)
      nameEnd   == WordRunEnd(s, nameStart)
      gt        == indexOf(s, <<">">>, nameEnd)
  IN  [ index      |-> p,
        fullMatch  |-> Substring(s, p, gt + 1),
        tagName    |-> toLowerCase(Substring(s, nameStart, nameEnd)),
        attributes |-> Substring(s, nameEnd, gt),
        lastIndex  |-> gt + 1 ]

\* the end (exclusive) of the run of white space starting at i
RECURSIVE SpaceRunEnd(_, _)
SpaceRunEnd(s, i) ==
  IF i < Len(s) /\ IsSpace(s[i + 1]) THEN SpaceRunEnd(s, i + 1) ELSE i

\* the end (exclusive) of the run of [^"'] starting at i
RECURSIVE ValueRunEnd(_, _)
ValueRunEnd(s, i) ==
  IF i < Len(s) /\ s[i + 1] \notin {"\"", "'"} THEN ValueRunEnd(s, i + 1) ELSE i

\* new RegExp(`${attrName}\\s*=\\s*["']([^"']+)["']`, 'i') at offset p of the
\* attribute text: [ok, value]
attrRegexAt(a, attrName, p) ==
  LET eq    == SpaceRunEnd(a, p + Len(attrName))
      quote == SpaceRunEnd(a, eq + 1)
      vEnd  == ValueRunEnd(a, quote + 1)
  IN  [ ok    |-> /\ toLowerCase(Substring(a, p, p + Len(attrName))) = toLowerCase(attrName)
                  /\ At(a, eq) = "="
                  /\ At(a, quote) \in {"\"", "'"}
                  /\ vEnd > quote + 1
                  /\ At(a, vEnd) \in {"\"", "'"},
        value |-> Substring(a, quote + 1, vEnd) ]

\* attributes.match(regex) from offset p on: match[1], or '' without a match
RECURSIVE attrRegexFrom(_, _, _)
attrRegexFrom(a, attrName, p) ==
  IF p >= Len(a) THEN <<>>
  ELSE IF attrRegexAt(a, attrName, p).ok THEN attrRegexAt(a, attrName, p).value
  ELSE attrRegexFrom(a, attrName, p + 1)

extractAttribute(attributes, attrName) == attrRegexFrom(attributes, attrName, 0)

\* className.split(' ')[0]
FirstClass(className) ==
  LET sp == indexOf(className, <<" ">>, 0)
  IN  IF sp = -1 THEN className ELSE Substring(className, 0, sp)

\* new Dependency(label, description, collapsibleState) with the fields the
\* parser sets
Dependency(tagName, id, className, collapsible) ==
  [ label            |-> <<"<">> \o tagName \o <<">">>
                           \o (IF id # <<>> THEN <<" ", "#">> \o id ELSE <<>>)
                           \o (IF className # <<>>
                                 THEN <<" ", ".">> \o FirstClass(className) ELSE <<>>),
    tagName          |-> tagName,
    elementId        |-> id,
    className        |-> className,
    collapsibleState |-> IF collapsible THEN "Collapsed" ELSE "None",
    children         |-> <<>> ]

\* the parser's state: the objects created so far (a Dependency is named by
\* its index in nodes), the open-element stack and the root list
EmptyParse == [nodes |-> <<>>, stack |-> <<>>, roots |-> <<>>]

\* a variant that puts the new element in front of its siblings
\* (parent.children.unshift(element))
PushChildFront(nodes, parent, element) ==
  [nodes EXCEPT ![parent].children = <<element>> \o @,
                ![parent].collapsibleState = "Collapsed"]

\* a variant that attaches the new element to the first object created
\* instead of the top of the stack
PushChildToFirst(nodes, parent, element) ==
  [nodes EXCEPT ![1].children = Append(@, element),
                ![1].collapsibleState = "Collapsed"]

\* parent.children.push(element); parent.updateCollapsibleState()
PushChild(nodes, parent, element) ==
  [nodes EXCEPT ![parent].children = Append(@, element),
                ![parent].collapsibleState = "Collapsed"]

\* a variant that empties the stack (stack.length = 0)
PopAll(stack) == <<>>

\* stack.pop()
Pop(stack) == SubSeq(stack, 1, Len(stack) - 1)

\* the body of the while loop for one match m of tagRegex
ParseToken(st, m) ==
  LET isClosingTag  == Substring(m.fullMatch, 0, 2) = <<"<", "/">>
      isSelfClosing ==
        \/ Substring(m.fullMatch, Len(m.fullMatch) - 2, Len(m.fullMatch)) = <<"/", ">">>
        \/ m.tagName \in selfClosingTags
  IN  IF \/ m.tagName = <<"!","d","o","c","t","y","p","e">>
         \/ Substring(m.fullMatch, 0, 4) = <<"<","!","-","-">>
        THEN st
      ELSE IF isClosingTag
        THEN IF Len(st.stack) > 0
                  /\ st.nodes[st.stack[Len(st.stack)]].tagName = m.tagName
               THEN [st EXCEPT !.stack = Pop(@)]
               ELSE st
      ELSE
        LET id        == extractAttribute(m.attributes, <<"i","d">>)
            className == extractAttribute(m.attributes, <<"c","l","a","s","s">>)
            element   == Len(st.nodes) + 1
            created   == Append(st.nodes,
                           Dependency(m.tagName, id, className,
                             ~isSelfClosing /\ m.tagName \notin selfClosingTags))
            attached  ==
              IF Len(st.stack) > 0
                THEN [ nodes |-> PushChild(created, st.stack[Len(st.stack)], element),
                       roots |-> st.roots ]
                ELSE [ nodes |-> created, roots |-> Append(st.roots, element) ]
        IN  [ nodes |-> attached.nodes,
              roots |-> attached.roots,
              stack |-> IF ~isSelfClosing THEN Append(st.stack, element)
                                          ELSE st.stack ]

\* the while loop from lastIndex on
RECURSIVE ParseFrom(_, _, _)
ParseFrom(s, lastIndex, st) ==
  LET p == tagRegexExec(s, lastIndex)
  IN  IF p = -1 THEN st
      ELSE ParseFrom(s, tagRegexMatch(s, p).lastIndex,
                     ParseToken(st, tagRegexMatch(s, p)))

\* the returned roots, with the objects they reach
parseHTMLHierarchy(htmlContent) ==
  LET st == ParseFrom(htmlContent, 0, EmptyParse)
  IN  [nodes |-> st.nodes, roots |-> st.roots]

----------------------------------------------------------------------------
(* The documents                                                           *)

\* the most pieces of markup a generated document is made of
MaxToks == 4

\* the pieces: two element names with their closing tags, a void element, a
\* self-closing element and character data
Tokens ==
  { <<"<","a",">">>, <<"<","/","a",">">>, <<"<","b",">">>, <<"<","/","b",">">>,
    <<"<","b","r",">">>, <<"<","a"," ","/",">">>, <<"x">> }

RECURSIVE DocsOfLen(_)
DocsOfLen(n) ==
  IF n = 0 THEN {<<>>}
  ELSE {d \o tok : d \in DocsOfLen(n - 1), tok \in Tokens}

GeneratedDocs == UNION {DocsOfLen(n) : n \in 0..MaxToks}

\* <div id="outer"><div id="inner">x</div></div>
NestedDivDoc ==
  <<"<","d","i","v"," ","i","d","=","\"","o","u","t","e","r","\"",">","<","d","i","v"," ","i","d","=","\"","i","n","n","e","r","\"",">","x","<","/","d","i","v",">","<","/","d","i","v",">">>

\* <!-- <div id="x"></div> -->
CommentDoc ==
  <<"<","!","-","-"," ","<","d","i","v"," ","i","d","=","\"","x","\"",">","<","/","d","i","v",">"," ","-","-",">">>

\* <div id="x">
UnterminatedDoc == <<"<","d","i","v"," ","i","d","=","\"","x","\"",">">>

\* <img id="a" />
SelfClosingDoc == <<"<","i","m","g"," ","i","d","=","\"","a","\""," ","/",">">>

\* <img alt="a<b" />
AttrLtDoc == <<"<","i","m","g"," ","a","l","t","=","\"","a","<","b","\""," ","/",">">>

\* <a><!-- </a> --></a>
CommentedCloseDoc ==
  <<"<","a",">","<","!","-","-"," ","<","/","a",">"," ","-","-",">","<","/","a",">">>

\* <!-- <a> --><a>x</a>
CommentedOpenDoc ==
  <<"<","!","-","-"," ","<","a",">"," ","-","-",">","<","a",">","x","<","/","a",">">>

FixedDocs ==
  { NestedDivDoc, CommentDoc, UnterminatedDoc, SelfClosingDoc, AttrLtDoc,
    CommentedCloseDoc, CommentedOpenDoc }

Docs == GeneratedDocs \cup FixedDocs

----------------------------------------------------------------------------
(* The remove-element command over an open document and its tree view      *)

\* the document after edit.replace(document.uri, range, '')
ReplaceRange(s, r) == Substring(s, 0, r.start) \o Substring(s, r.end, Len(s))

\* the variables a specification does not use keep these values
NoLocals == [i |-> 0, tagStart |-> -1, depth |-> 0, searchStart |-> 0]

NoCall ==
  /\ tagRegex = [lastIndex |-> 0]
  /\ parse = EmptyParse
  /\ locals = NoLocals

NoEnvironment ==
  /\ activeFile = "who_am_i.html"
  /\ rootFile = <<>>
  /\ message = "none"

NoBackups ==
  /\ files = <<>>
  /\ backups = <<>>
  /\ firstBackup = <<>>
  /\ editor = <<>>

\* no web page is open
NoPage ==
  /\ app = <<>>
  /\ page = <<>>
  /\ pending = {}

Init ==
  /\ text \in Docs
  /\ rootElements = parseHTMLHierarchy(text)
  /\ pc = "idle"
  /\ cursorOffset = 0
  /\ fullText = <<>>
  /\ elementRange = Null
  /\ NoCall
  /\ NoEnvironment
  /\ NoBackups
  /\ NoPage

\* helloworld.removeHtmlElement up to the confirmation prompt, with the
\* cursor at offset o
RemoveHtmlElement(o) ==
  /\ pc = "idle"
  /\ cursorOffset' = o
  /\ fullText' = text
  /\ elementRange' = findCompleteHtmlElement(text, o)
  /\ pc' = IF elementRange'.found THEN "confirm" ELSE "notFound"
  /\ UNCHANGED <<text, rootElements>>
  /\ UNCHANGED <<buildVars, locateVars, envVars, backupVars, pageVars>>

\* the user answers 'Remove': the edit is applied, the file saved and the
\* views refreshed
AnswerRemove ==
  /\ pc = "confirm"
  /\ text' = ReplaceRange(text, elementRange)
  /\ rootElements' = parseHTMLHierarchy(text')
  /\ pc' = "removed"
  /\ UNCHANGED <<cursorOffset, fullText, elementRange>>
  /\ UNCHANGED <<buildVars, locateVars, envVars, backupVars, pageVars>>

\* the user answers 'Cancel' or dismisses the prompt
AnswerCancel ==
  /\ pc = "confirm"
  /\ pc' = "idle"
  /\ cursorOffset' = 0
  /\ fullText' = <<>>
  /\ elementRange' = Null
  /\ UNCHANGED <<text, rootElements>>
  /\ UNCHANGED <<buildVars, locateVars, envVars, backupVars, pageVars>>

\* the error message or the success notification goes away
DismissMessage ==
  /\ pc \in {"notFound", "removed"}
  /\ pc' = "idle"
  /\ cursorOffset' = 0
  /\ fullText' = <<>>
  /\ elementRange' = Null
  /\ UNCHANGED <<text, rootElements>>
  /\ UNCHANGED <<buildVars, locateVars, envVars, backupVars, pageVars>>

Next ==
  \/ \E o \in 0..Len(text) : RemoveHtmlElement(o)
  \/ AnswerRemove
  \/ AnswerCancel
  \/ DismissMessage

Spec == Init /\ [][Next]_vars

----------------------------------------------------------------------------
(* parseHTMLHierarchy and findCompleteHtmlElement, one loop iteration at a  *)
(* time                                                                     *)

\* the most pieces of markup of a generated document of this specification
MaxCoreToks == 3

\* <!DOCTYPE html><a>x</a>
DoctypeDoc ==
  <<"<","!","D","O","C","T","Y","P","E"," ","h","t","m","l",">","<","a",">","x","<","/","a",">">>

\* <span class="foo bar" id="s1">
SpanDoc ==
  <<"<","s","p","a","n"," ","c","l","a","s","s","=","\"","f","o","o"," ","b","a","r","\""," ","i","d","=","\"","s","1","\"",">">>

\* <p id=a class='b'>
UnquotedIdDoc ==
  <<"<","p"," ","i","d","=","a"," ","c","l","a","s","s","=","'","b","'",">">>

\* <div data-id="7">x</div>
DataIdDoc ==
  <<"<","d","i","v"," ","d","a","t","a","-","i","d","=","\"","7","\"",">","x","<","/","d","i","v",">">>

\* <a><b></b><br><b>x</b></a><a></a>
SiblingsDoc ==
  <<"<","a",">","<","b",">","<","/","b",">","<","b","r",">","<","b",">","x","<","/","b",">","<","/","a",">","<","a",">","<","/","a",">">>

\* I <3 <b>x</b>
HeartDoc == <<"I"," ","<","3"," ","<","b",">","x","<","/","b",">">>

\* <a></b/>y</a>
SlashedCloseDoc == <<"<","a",">","<","/","b","/",">","y","<","/","a",">">>

\* <a><A>x</A></a>
MixedCaseNestedDoc ==
  <<"<","a",">","<","A",">","x","<","/","A",">","<","/","a",">">>

\* <DIV>x</DIV>
UpperDivDoc == <<"<","D","I","V",">","x","<","/","D","I","V",">">>

\* <my-widget>x</my-widget>
WidgetDoc ==
  <<"<","m","y","-","w","i","d","g","e","t",">","x",
    "<","/","m","y","-","w","i","d","g","e","t",">">>

CoreFixedDocs ==
  {DoctypeDoc, SpanDoc, UnquotedIdDoc, DataIdDoc, SiblingsDoc, HeartDoc,
   SlashedCloseDoc, MixedCaseNestedDoc, UpperDivDoc, WidgetDoc}

CoreDocs ==
  UNION {DocsOfLen(n) : n \in 0..MaxCoreToks} \cup FixedDocs \cup CoreFixedDocs

\* the value of a read that finds no object (undefined, null)
NoObject == 0

\* stack[stack.length - 1]
StackTop(st) == IF Len(st.stack) > 0 THEN st.stack[Len(st.stack)] ELSE NoObject

\* a variant that reads the top of the stack without testing stack.length
StackNotEmptyUntested(st) == TRUE

\* stack.length > 0, the test in front of both reads of the top of the stack
StackNotEmpty(st) == Len(st.stack) > 0

\* the body of the while loop throws a TypeError: it reads a property
\* (tagName, children) of stack[stack.length - 1] and that is undefined
ParseTokenThrows(st, m) ==
  /\ ~( \/ m.tagName = <<"!","d","o","c","t","y","p","e">>
        \/ Substring(m.fullMatch, 0, 4) = <<"<","!","-","-">> )
  /\ StackNotEmpty(st)
  /\ StackTop(st) = NoObject

\* a variant of the regex object that keeps its lastIndex after a match
LastIndexKept(m, old) == [lastIndex |-> old]

\* tagRegex after exec returned the match m
LastIndexAfter(m, old) == [lastIndex |-> m.lastIndex]

NoTree == [nodes |-> <<>>, roots |-> <<>>]

CoreInit ==
  /\ text \in CoreDocs
  /\ rootElements = NoTree
  /\ pc = "idle"
  /\ cursorOffset = 0
  /\ fullText = <<>>
  /\ elementRange = Null
  /\ NoCall
  /\ NoEnvironment
  /\ NoBackups
  /\ NoPage

\* parseHTMLHierarchy(htmlContent) is called on the document
CallParse ==
  /\ pc = "idle"
  /\ pc' = "parsing"
  /\ tagRegex' = [lastIndex |-> 0]
  /\ parse' = EmptyParse
  /\ UNCHANGED <<text, rootElements, cursorOffset, fullText, elementRange>>
  /\ UNCHANGED <<locateVars, envVars, backupVars, pageVars>>

\* one iteration of while ((match = tagRegex.exec(htmlContent)) !== null)
ParseStep ==
  /\ pc = "parsing"
  /\ tagRegexExec(text, tagRegex.lastIndex) # -1
  /\ LET m == tagRegexMatch(text, tagRegexExec(text, tagRegex.lastIndex))
     IN  IF ParseTokenThrows(parse, m)
           THEN /\ pc' = "threw"
                /\ UNCHANGED <<tagRegex, parse>>
           ELSE /\ pc' = "parsing"
                /\ tagRegex' = LastIndexAfter(m, tagRegex.lastIndex)
                /\ parse' = ParseToken(parse, m)
  /\ UNCHANGED <<text, rootElements, cursorOffset, fullText, elementRange>>
  /\ UNCHANGED <<locateVars, envVars, backupVars, pageVars>>

\* exec finds no further match (and resets lastIndex): return roots
ParseReturn ==
  /\ pc = "parsing"
  /\ tagRegexExec(text, tagRegex.lastIndex) = -1
  /\ pc' = "parsed"
  /\ tagRegex' = [lastIndex |-> 0]
  /\ rootElements' = [nodes |-> parse.nodes, roots |-> parse.roots]
  /\ UNCHANGED <<parse, text, cursorOffset, fullText, elementRange>>
  /\ UNCHANGED <<locateVars, envVars, backupVars, pageVars>>

\* findCompleteHtmlElement(text, offset) is called
CallLocate(offset) ==
  /\ pc = "idle"
  /\ pc' = "backward"
  /\ cursorOffset' = offset
  /\ fullText' = text
  /\ locals' = [i |-> offset, tagStart |-> -1, depth |-> 0, searchStart |-> 0]
  /\ UNCHANGED <<text, rootElements, elementRange>>
  /\ UNCHANGED <<buildVars, envVars, backupVars, pageVars>>

\* one iteration of for (let i = offset; i >= 0; i--)
BackwardStep ==
  /\ pc = "backward"
  /\ locals.i >= 0
  /\ LET at == locals.i
     IN  IF At(text, at) = "<" /\ at < Len(text) - 1
                /\ ~SkipCommentOrClosing(text, at) /\ tagMatch(text, at)
           THEN /\ locals' = [locals EXCEPT !.tagStart = at]
                /\ pc' = "classify"
         ELSE IF At(text, at) = ">" /\ at > 0 /\ At(text, at - 1) # "/"
                   /\ At(text, tagStartPosOf(text, at) + 1) = "/"
           THEN /\ locals' = [locals EXCEPT !.i = cursorOffset]
                /\ pc' = "forward"
         ELSE /\ locals' = [locals EXCEPT !.i = at - 1]
              /\ pc' = "backward"
  /\ UNCHANGED <<text, rootElements, cursorOffset, fullText, elementRange>>
  /\ UNCHANGED <<buildVars, envVars, backupVars, pageVars>>

\* the backward loop ends at i < 0 without an opening tag
BackwardEnd ==
  /\ pc = "backward"
  /\ locals.i < 0
  /\ locals' = [locals EXCEPT !.i = cursorOffset]
  /\ pc' = "forward"
  /\ UNCHANGED <<text, rootElements, cursorOffset, fullText, elementRange>>
  /\ UNCHANGED <<buildVars, envVars, backupVars, pageVars>>

\* one iteration of for (let i = offset; i < text.length; i++)
ForwardStep ==
  /\ pc = "forward"
  /\ locals.i < Len(text)
  /\ LET at == locals.i
     IN  IF At(text, at) = "<" /\ at < Len(text) - 1
                /\ ~SkipCommentOrClosing(text, at) /\ tagMatch(text, at)
           THEN /\ locals' = [locals EXCEPT !.tagStart = at]
                /\ pc' = "classify"
           ELSE /\ locals' = [locals EXCEPT !.i = at + 1]
                /\ pc' = "forward"
  /\ UNCHANGED <<text, rootElements, cursorOffset, fullText, elementRange>>
  /\ UNCHANGED <<buildVars, envVars, backupVars, pageVars>>

\* the forward loop ends without an opening tag: return null
ForwardEnd ==
  /\ pc = "forward"
  /\ locals.i >= Len(text)
  /\ pc' = "returned"
  /\ elementRange' = Null
  /\ UNCHANGED <<locals, text, rootElements, cursorOffset, fullText>>
  /\ UNCHANGED <<buildVars, envVars, backupVars, pageVars>>

\* from the anchor to the start of the depth loop: the opening tag's end, the
\* self-closing and the void element returns
ClassifyAnchor ==
  /\ pc = "classify"
  /\ LET tagName       == tagNameAt(text, locals.tagStart)
         openingTagEnd == indexOf(text, <<">">>, locals.tagStart)
     IN  IF tagName = <<>> \/ openingTagEnd = -1
           THEN /\ pc' = "returned"
                /\ elementRange' = Null
                /\ UNCHANGED locals
         ELSE IF \/ Substring(text, openingTagEnd - 1, openingTagEnd + 1) = <<"/", ">">>
                 \/ tagName \in voidElements
           THEN /\ pc' = "returned"
                /\ elementRange' = ElementRange(locals.tagStart, openingTagEnd + 1)
                /\ UNCHANGED locals
         ELSE /\ pc' = "closing"
              /\ locals' = [locals EXCEPT !.depth = 1,
                                          !.searchStart = openingTagEnd + 1]
              /\ UNCHANGED elementRange
  /\ UNCHANGED <<text, rootElements, cursorOffset, fullText>>
  /\ UNCHANGED <<buildVars, envVars, backupVars, pageVars>>

\* a variant of the search position after a nested opening tag that stays at
\* the tag (searchStart = nextOpenPos)
SearchStartAtOpen(nextOpenPos, tagName) == nextOpenPos

\* searchStart = nextOpenPos + tagName.length + 1
SearchStartAfterOpen(nextOpenPos, tagName) == nextOpenPos + Len(tagName) + 1

\* a variant that reads nextOpenMatch.index without testing nextOpenMatch
NextOpenMatchUntested(nextOpenMatch) == TRUE

\* nextOpenMatch ? ... : -1, the test in front of the read of nextOpenMatch.index
NextOpenMatchTested(nextOpenMatch) == nextOpenMatch # -1

\* one iteration of while (depth > 0 && searchStart < text.length)
DepthStep ==
  /\ pc = "closing"
  /\ locals.depth > 0 /\ locals.searchStart < Len(text)
  /\ LET tagName       == tagNameAt(text, locals.tagStart)
         closingTag    == closingTagOf(tagName)
         nextOpenMatch == nextOpenPosFrom(text, tagName, locals.searchStart)
         nextOpenPos   == nextOpenMatch
         nextClosePos  == indexOf(text, closingTag, locals.searchStart)
     IN  IF NextOpenMatchTested(nextOpenMatch) /\ nextOpenMatch = -1
           THEN /\ pc' = "threw"
                /\ UNCHANGED <<locals, elementRange>>
         ELSE IF nextClosePos = -1
           THEN /\ pc' = "returned"
                /\ elementRange' = Null
                /\ UNCHANGED locals
         ELSE IF nextOpenPos # -1 /\ nextOpenPos < nextClosePos
           THEN /\ pc' = "closing"
                /\ locals' = [locals EXCEPT
                                !.depth = @ + 1,
                                !.searchStart = SearchStartAfterOpen(nextOpenPos, tagName)]
                /\ UNCHANGED elementRange
         ELSE IF locals.depth - 1 = 0
           THEN /\ pc' = "returned"
                /\ elementRange' = ElementRange(locals.tagStart,
                                                nextClosePos + Len(closingTag))
                /\ locals' = [locals EXCEPT !.depth = 0]
         ELSE /\ pc' = "closing"
              /\ locals' = [locals EXCEPT
                              !.depth = @ - 1,
                              !.searchStart = nextClosePos + Len(closingTag)]
              /\ UNCHANGED elementRange
  /\ UNCHANGED <<text, rootElements, cursorOffset, fullText>>
  /\ UNCHANGED <<buildVars, envVars, backupVars, pageVars>>

\* the depth loop ends with depth > 0: return null
DepthEnd ==
  /\ pc = "closing"
  /\ ~(locals.depth > 0 /\ locals.searchStart < Len(text))
  /\ pc' = "returned"
  /\ elementRange' = Null
  /\ UNCHANGED <<locals, text, rootElements, cursorOffset, fullText>>
  /\ UNCHANGED <<buildVars, envVars, backupVars, pageVars>>

CoreNext ==
  \/ CallParse
  \/ ParseStep
  \/ ParseReturn
  \/ \E offset \in 0..Len(text) : CallLocate(offset)
  \/ BackwardStep
  \/ BackwardEnd
  \/ ForwardStep
  \/ ForwardEnd
  \/ ClassifyAnchor
  \/ DepthStep
  \/ DepthEnd

CoreSpec == CoreInit /\ [][CoreNext]_vars

\* the steps of a call that is under way
RunningStep ==
  \/ ParseStep
  \/ ParseReturn
  \/ BackwardStep
  \/ BackwardEnd
  \/ ForwardStep
  \/ ForwardEnd
  \/ ClassifyAnchor
  \/ DepthStep
  \/ DepthEnd

----------------------------------------------------------------------------
(* The remove-element command in its environment: the editor it runs in,    *)
(* the user at the keyboard while the confirmation is shown, the tree view  *)
(* that reads who_am_i.html of the workspace root                           *)

\* the most pieces of markup of a generated document of this specification
MaxCmdToks == 2

CmdDocs == UNION {DocsOfLen(n) : n \in 0..MaxCmdToks}

\* who_am_i.html of the workspace root while the editor shows another file:
\* <b>x</b>
RootDoc == <<"<","b",">","x","<","/","b",">">>

\* the files an editor can show: who_am_i.html of the workspace root, another
\* HTML file, a file that does not end in .html; "none" for no active editor
EditorFiles == {"none", "who_am_i.html", "page.html", "notes.txt"}

\* (global as any).extensionContext, which no code ever assigns
globalExtensionContext == NoObject

CmdInit ==
  /\ activeFile \in EditorFiles
  /\ text \in IF activeFile = "none" THEN {<<>>} ELSE CmdDocs
  /\ rootFile = IF activeFile = "who_am_i.html" THEN text ELSE RootDoc
  /\ rootElements = parseHTMLHierarchy(rootFile)
  /\ message = "none"
  /\ pc = "idle"
  /\ cursorOffset = 0
  /\ fullText = <<>>
  /\ elementRange = Null
  /\ NoCall
  /\ NoBackups
  /\ NoPage

\* the command is run without an active editor
CommandWithoutEditor ==
  /\ pc = "idle"
  /\ activeFile = "none"
  /\ message' = "No active editor found."
  /\ pc' = "finished"
  /\ UNCHANGED <<text, rootElements, cursorOffset, fullText, elementRange>>
  /\ UNCHANGED <<activeFile, rootFile, buildVars, locateVars, backupVars, pageVars>>

\* the command is run on a file whose name does not end in .html
CommandOnOtherFile ==
  /\ pc = "idle"
  /\ activeFile = "notes.txt"
  /\ message' = "This command only works with HTML files."
  /\ pc' = "finished"
  /\ UNCHANGED <<text, rootElements, cursorOffset, fullText, elementRange>>
  /\ UNCHANGED <<activeFile, rootFile, buildVars, locateVars, backupVars, pageVars>>

\* the command is run on an HTML file with the cursor at offset o: the text
\* is read, the element located, and the confirmation or the error shown
CommandLocates(o) ==
  /\ pc = "idle"
  /\ activeFile \in {"who_am_i.html", "page.html"}
  /\ cursorOffset' = o
  /\ fullText' = text
  /\ elementRange' = findCompleteHtmlElement(text, o)
  /\ IF elementRange'.found
       THEN pc' = "confirm" /\ message' = "Remove HTML element?"
       ELSE pc' = "finished" /\ message' = "Could not find a complete HTML element"
  /\ UNCHANGED <<text, rootElements>>
  /\ UNCHANGED <<activeFile, rootFile, buildVars, locateVars, backupVars, pageVars>>

\* while the confirmation (a notification, modal: false) is shown the user
\* types a character at the top of the document
UserTypes ==
  /\ pc = "confirm"
  /\ text = fullText
  /\ text' = <<"x">> \o text
  /\ UNCHANGED <<rootElements, pc, cursorOffset, fullText, elementRange>>
  /\ UNCHANGED <<envVars, buildVars, locateVars, backupVars, pageVars>>

\* the user answers 'Cancel' or dismisses the confirmation
PromptCancelled ==
  /\ pc = "confirm"
  /\ pc' = "finished"
  /\ message' = "none"
  /\ UNCHANGED <<text, rootElements, cursorOffset, fullText, elementRange>>
  /\ UNCHANGED <<activeFile, rootFile, buildVars, locateVars, backupVars, pageVars>>

\* the user answers 'Remove' and applyEdit succeeds: the range, taken at the
\* positions of the offsets in the document as it is now, is replaced by '',
\* the document saved, and refreshViews called
EditApplied ==
  /\ pc = "confirm"
  /\ text' = ReplaceRange(text, elementRange)
  /\ rootFile' = IF activeFile = "who_am_i.html" THEN text' ELSE rootFile
  /\ IF globalExtensionContext # NoObject
       THEN /\ pc' = "finished"
            /\ message' = "Error removing HTML element"
       ELSE /\ pc' = "reloading"
            /\ message' = "HTML element and its children removed successfully."
  /\ UNCHANGED <<rootElements, cursorOffset, fullText, elementRange>>
  /\ UNCHANGED <<activeFile, buildVars, locateVars, backupVars, pageVars>>

\* the user answers 'Remove' and applyEdit reports failure
EditRejected ==
  /\ pc = "confirm"
  /\ pc' = "finished"
  /\ message' = "Failed to remove HTML element."
  /\ UNCHANGED <<text, rootElements, cursorOffset, fullText, elementRange>>
  /\ UNCHANGED <<activeFile, rootFile, buildVars, locateVars, backupVars, pageVars>>

\* workbench.action.reloadWindow: the extension is activated anew, a new
\* provider registered, and the view asks it for the tree of who_am_i.html
WindowReloaded ==
  /\ pc = "reloading"
  /\ rootElements' = parseHTMLHierarchy(rootFile)
  /\ pc' = "finished"
  /\ UNCHANGED <<text, cursorOffset, fullText, elementRange>>
  /\ UNCHANGED <<envVars, buildVars, locateVars, backupVars, pageVars>>

CmdNext ==
  \/ CommandWithoutEditor
  \/ CommandOnOtherFile
  \/ \E o \in 0..Len(text) : CommandLocates(o)
  \/ UserTypes
  \/ PromptCancelled
  \/ EditApplied
  \/ EditRejected
  \/ WindowReloaded

CmdSpec == CmdInit /\ [][CmdNext]_vars

----------------------------------------------------------------------------
(* The terms of the claims: the tag tokens, elements and nesting of a       *)
(* document as the specification's tag scanner defines them                 *)

\* a tag at offset i: '<', optional '/', an ASCII letter followed by letters,
\* digits and hyphens, any run of non-'>' characters, '>'
ScanNameStart(s, i) == IF At(s, i + 1) = "/" THEN i + 2 ELSE i + 1

ScanTagAt(s, i) ==
  /\ At(s, i) = "<"
  /\ IsLetter(At(s, ScanNameStart(s, i)))
  /\ indexOf(s, <<">">>, ScanNameStart(s, i) + 1) # -1

TagToken(s, i) ==
  LET nameEnd == NameRunEnd(s, ScanNameStart(s, i))
      gt      == indexOf(s, <<">">>, nameEnd)
      name    == toLowerCase(Substring(s, ScanNameStart(s, i), nameEnd))
  IN  [ startOffset   |-> i,
        endOffset     |-> gt + 1,
        tagName       |-> name,
        isClosing     |-> At(s, i + 1) = "/",
        isSelfClosing |-> /\ At(s, i + 1) # "/"
                          /\ (At(s, gt - 1) = "/" \/ name \in voidElements) ]

\* the end (exclusive) of the comment that starts at offset i: one past its
\* '-->', or the end of the text when it is never closed
CommentEnd(s, i) ==
  IF indexOf(s, <<"-","-",">">>, i + 4) = -1 THEN Len(s)
  ELSE indexOf(s, <<"-","-",">">>, i + 4) + 3

IsCommentStart(s, i) == OccursAt(s, <<"<","!","-","-">>, i)

IsDoctypeStart(s, i) ==
  toLowerCase(Substring(s, i, i + 9)) = <<"<","!","d","o","c","t","y","p","e">>

\* the tag tokens at or after offset i, comments and the DOCTYPE skipped
RECURSIVE ScanTokens(_, _)
ScanTokens(s, i) ==
  IF i >= Len(s) THEN <<>>
  ELSE IF IsCommentStart(s, i) THEN ScanTokens(s, CommentEnd(s, i))
  ELSE IF IsDoctypeStart(s, i)
    THEN IF indexOf(s, <<">">>, i) = -1 THEN <<>>
         ELSE ScanTokens(s, indexOf(s, <<">">>, i) + 1)
  ELSE IF ScanTagAt(s, i)
    THEN <<TagToken(s, i)>> \o ScanTokens(s, TagToken(s, i).endOffset)
  ELSE ScanTokens(s, i + 1)

\* the comment blocks of a document, as [startOffset, endOffset)
RECURSIVE CommentBlocks(_, _)
CommentBlocks(s, i) ==
  IF i >= Len(s) THEN {}
  ELSE IF IsCommentStart(s, i)
    THEN {[startOffset |-> i, endOffset |-> CommentEnd(s, i)]}
           \cup CommentBlocks(s, CommentEnd(s, i))
  ELSE CommentBlocks(s, i + 1)

\* the nesting of a token sequence: for every token its nesting depth and,
\* for an opening tag, the index of its matching closing tag (0 when it has
\* none); ok is FALSE when a closing tag does not match the innermost open
\* element
RECURSIVE Nest(_, _, _, _)
Nest(toks, k, open, acc) ==
  IF k > Len(toks) THEN [acc EXCEPT !.ok = acc.ok /\ open = <<>>]
  ELSE IF toks[k].isClosing
    THEN IF open # <<>> /\ toks[open[Len(open)]].tagName = toks[k].tagName
           THEN Nest(toks, k + 1, SubSeq(open, 1, Len(open) - 1),
                     [acc EXCEPT !.closeOf[open[Len(open)]] = k,
                                 !.depthOf[k] = Len(open) - 1])
           ELSE Nest(toks, k + 1, open, [acc EXCEPT !.ok = FALSE])
  ELSE Nest(toks, k + 1,
            IF toks[k].isSelfClosing THEN open ELSE Append(open, k),
            [acc EXCEPT !.depthOf[k] = Len(open)])

Nesting(toks) ==
  Nest(toks, 1, <<>>,
       [ ok      |-> TRUE,
         closeOf |-> [k \in 1..Len(toks) |-> 0],
         depthOf |-> [k \in 1..Len(toks) |-> 0] ])

\* every opening tag has exactly one matching same-name closing tag,
\* properly nested
WellFormed(s) == Nesting(ScanTokens(s, 0)).ok

\* the elements of a well-formed document: the opening tags, each with the
\* range from its '<' to one past the '>' of its matching closing tag (of
\* the tag itself when it is self-closing or void), and its nesting depth
Elements(s) ==
  LET toks == ScanTokens(s, 0)
      nest == Nesting(toks)
  IN  { [ startOffset |-> toks[k].startOffset,
          openEnd     |-> toks[k].endOffset,
          endOffset   |-> IF toks[k].isSelfClosing \/ nest.closeOf[k] = 0
                            THEN toks[k].endOffset
                            ELSE toks[nest.closeOf[k]].endOffset,
          isSelfClosing |-> toks[k].isSelfClosing,
          depth       |-> nest.depthOf[k],
          nextTag     |-> IF k < Len(toks) THEN toks[k + 1].startOffset ELSE Len(s) ]
        : k \in {j \in 1..Len(toks) : ~toks[j].isClosing} }

\* the nesting depths of the opening tags, in document order
OpeningDepths(s) ==
  LET toks == ScanTokens(s, 0)
      nest == Nesting(toks)
      RECURSIVE From(_)
      From(k) == IF k > Len(toks) THEN <<>>
                 ELSE IF toks[k].isClosing THEN From(k + 1)
                 ELSE <<nest.depthOf[k]>> \o From(k + 1)
  IN  From(1)

\* a forest in document order: every node reached from the list, with its depth
RECURSIVE Preorder(_, _, _)
Preorder(nodes, list, depth) ==
  IF list = <<>> THEN <<>>
  ELSE <<[ label |-> nodes[Head(list)].label,
           tagName |-> nodes[Head(list)].tagName,
           elementId |-> nodes[Head(list)].elementId,
           className |-> nodes[Head(list)].className,
           depth |-> depth ]>>
         \o Preorder(nodes, nodes[Head(list)].children, depth + 1)
         \o Preorder(nodes, Tail(list), depth)

Forest(tree) == Preorder(tree.nodes, tree.roots, 0)

\* has the command looked for an element (of fullText, at cursorOffset)
Located == pc \in {"confirm", "notFound", "removed"}

----------------------------------------------------------------------------
(* Claims                                                                  *)

\* C1: in a well-formed document, locating at the offset of the '<' of an
\* element's opening tag returns the range from that '<' to one past the '>'
\* of the element's matching closing tag (of the opening tag itself when the
\* element is self-closing or void).
C1_LocateAtOpeningTagCoversElement ==
  (Located /\ WellFormed(fullText)) =>
    \A e \in Elements(fullText) :
      cursorOffset = e.startOffset =>
        elementRange = ElementRange(e.startOffset, e.endOffset)

\* C2: for a well-formed document the forest of buildTree has as many nodes
\* as the document has opening tags, and the depth of each node is the
\* nesting depth of its tag.
C2_TreeMirrorsNesting ==
  WellFormed(text) =>
    LET forest == Forest(rootElements)
        depths == OpeningDepths(text)
    IN  /\ Len(forest) = Len(depths)
        /\ \A k \in 1..Len(forest) : forest[k].depth = depths[k]

\* C3: a returned range satisfies 0 <= start < end <= length(text).
C3_RangeWithinText ==
  (Located /\ elementRange.found) =>
    /\ 0 <= elementRange.start
    /\ elementRange.start < elementRange.end
    /\ elementRange.end <= Len(fullText)

\* C3 witness: a range was returned that starts after the beginning of the
\* text and ends exactly at its end.
C3_Witness ==
  /\ pc = "confirm"
  /\ elementRange.start > 0
  /\ elementRange.end = Len(fullText)

\* the tag tokens named T among the tokens of a text: the opening tags that
\* are not self-closing, and the closing tags
OpeningTagsOf(toks, T) ==
  {k \in 1..Len(toks) :
     toks[k].tagName = T /\ ~toks[k].isClosing /\ ~toks[k].isSelfClosing}

ClosingTagsOf(toks, T) ==
  {k \in 1..Len(toks) : toks[k].tagName = T /\ toks[k].isClosing}

\* C4: the text of a returned range is a syntactically complete element: it
\* begins with the opening tag of the anchor's name T and either is exactly
\* that one self-closing or void tag, or ends with a closing tag of T and
\* holds as many closing tags of T as opening tags of T that are not
\* self-closing.
C4_RangeIsCompleteElement ==
  (Located /\ elementRange.found) =>
    LET sub  == Substring(fullText, elementRange.start, elementRange.end)
        toks == ScanTokens(sub, 0)
        T    == tagNameAt(sub, 0)
    IN  /\ ScanTagAt(sub, 0)
        /\ ~TagToken(sub, 0).isClosing
        /\ \/ /\ TagToken(sub, 0).isSelfClosing
              /\ TagToken(sub, 0).endOffset = Len(sub)
           \/ /\ Substring(sub, Len(sub) - Len(closingTagOf(T)), Len(sub))
                   = closingTagOf(T)
              /\ Cardinality(ClosingTagsOf(toks, T))
                   = Cardinality(OpeningTagsOf(toks, T))

\* the anchor of the last search is an opening tag that is neither
\* self-closing nor void
AnchorNeedsClosingTag(s, offset) ==
  LET tagStart      == FindAnchor(s, offset)
      openingTagEnd == indexOf(s, <<">">>, tagStart)
  IN  /\ tagStart # -1
      /\ At(s, openingTagEnd - 1) # "/"
      /\ tagNameAt(s, tagStart) \notin voidElements

\* the depth after the closing tag at offset c, counting from offset `from`
\* with depth 1: +1 for every '<T' followed by white space or '>', -1 for
\* every '</T>'
DepthAfter(s, T, from, c) ==
  1 + Cardinality({p \in from..(c - 1) : nextOpenPatternAt(s, T, p)})
    - Cardinality({q \in from..c : OccursAt(s, closingTagOf(T), q)})

\* the text from offset `from` on holds enough '</T>' to bring the depth to 0
EnoughClosingTags(s, T, from) ==
  \E c \in from..(Len(s) - 1) :
    OccursAt(s, closingTagOf(T), c) /\ DepthAfter(s, T, from, c) = 0

\* C5: when the anchor is neither self-closing nor void and the text after
\* it does not hold enough '</tagName>' to bring the depth to 0, the result
\* is NOT_FOUND; a range returned for such an anchor always ends with
\* '</tagName>'; and in the document '<div id="x">' every offset is
\* NOT_FOUND.
C5_UnterminatedIsNotFound ==
  Located =>
    LET tagStart == FindAnchor(fullText, cursorOffset)
        T        == tagNameAt(fullText, tagStart)
        from     == indexOf(fullText, <<">">>, tagStart) + 1
    IN  /\ (AnchorNeedsClosingTag(fullText, cursorOffset)
              /\ ~EnoughClosingTags(fullText, T, from))
            => elementRange = Null
        /\ (AnchorNeedsClosingTag(fullText, cursorOffset) /\ elementRange.found)
            => OccursAt(fullText, closingTagOf(T),
                        elementRange.end - Len(closingTagOf(T)))
        /\ fullText = UnterminatedDoc => elementRange = Null

\* C5 witness: the anchor needs a closing tag, the text after it holds a
\* '</tagName>', yet not enough of them, and the search answered NOT_FOUND.
C5_Witness ==
  /\ pc = "notFound"
  /\ AnchorNeedsClosingTag(fullText, cursorOffset)
  /\ LET tagStart == FindAnchor(fullText, cursorOffset)
         T        == tagNameAt(fullText, tagStart)
         from     == indexOf(fullText, <<">">>, tagStart) + 1
     IN  /\ indexOf(fullText, closingTagOf(T), from) # -1
         /\ ~EnoughClosingTags(fullText, T, from)


\* C6: innermost match: in a well-formed document, with the offset on
\* character data directly inside an element E (nothing but character data
\* between the end of E's opening tag and the offset), the result is the
\* range of E; in '<div id="outer"><div id="inner">x</div></div>' with the
\* offset on 'x' it is exactly the inner div.
C6_InnermostMatch ==
  Located =>
    /\ WellFormed(fullText) =>
         \A e \in Elements(fullText) :
           ( /\ ~e.isSelfClosing
             /\ e.openEnd <= cursorOffset
             /\ cursorOffset < e.nextTag
             /\ \A i \in e.openEnd..cursorOffset :
                  At(fullText, i) \notin {"<", ">"} )
           => elementRange = ElementRange(e.startOffset, e.endOffset)
    /\ (fullText = NestedDivDoc /\ cursorOffset = 32)
         => elementRange = ElementRange(16, 39)

\* C7 as claimed: in '<div id="outer"><div id="inner">x</div></div>', with
\* the offset immediately after the '>' of the outer opening tag (offset 16)
\* the result is the whole outer element, from 0 to the end of the text.
C7_OuterAfterOpeningTag ==
  (Located /\ fullText = NestedDivDoc /\ cursorOffset = 16)
    => elementRange = ElementRange(0, Len(NestedDivDoc))

\* C7 as amended: in that document, with the offset on any character of the
\* outer opening tag (0 to 15, the last being its '>') the result is the
\* whole outer element; with the offset immediately after that '>' (16, the
\* '<' of the inner opening tag) it is the inner element, 16 to 39.
C7_OuterOnlyWithinOpeningTag ==
  (Located /\ fullText = NestedDivDoc) =>
    /\ cursorOffset \in 0..15 => elementRange = ElementRange(0, Len(NestedDivDoc))
    /\ cursorOffset = 16 => elementRange = ElementRange(16, 39)

\* C7 witness: the search ran at offset 16 of that document and found an
\* element.
C7_Witness ==
  /\ pc = "confirm"
  /\ fullText = NestedDivDoc
  /\ cursorOffset = 16

\* C8: for a self-closing or void tag, any offset from its '<' through its
\* '>' returns exactly that tag.
C8_SelfClosingTagExact ==
  Located =>
    LET toks == ScanTokens(fullText, 0)
    IN  \A k \in 1..Len(toks) :
          ( /\ toks[k].isSelfClosing
            /\ toks[k].startOffset <= cursorOffset
            /\ cursorOffset < toks[k].endOffset )
          => elementRange = ElementRange(toks[k].startOffset, toks[k].endOffset)

\* C9: with the offset inside a comment block (after its '<!--') the result
\* is never the range of an element whose tags lie inside that comment; in
\* '<!-- <div id="x"></div> -->' no offset inside the comment yields the
\* commented-out div.
C9_CommentedElementNotMatched ==
  Located =>
    \A c \in CommentBlocks(fullText, 0) :
      (c.startOffset + 4 <= cursorOffset /\ cursorOffset < c.endOffset)
      => ~( /\ elementRange.found
            /\ c.startOffset <= elementRange.start
            /\ elementRange.end <= c.endOffset )

\* the offsets at which parseHTMLHierarchy creates its nodes, in creation order
RECURSIVE NodeOffsets(_, _)
NodeOffsets(s, lastIndex) ==
  LET p == tagRegexExec(s, lastIndex)
      m == tagRegexMatch(s, p)
  IN  IF p = -1 THEN <<>>
      ELSE IF Substring(m.fullMatch, 0, 2) = <<"<", "/">>
        THEN NodeOffsets(s, m.lastIndex)
      ELSE <<p>> \o NodeOffsets(s, m.lastIndex)

\* the nodes of a forest in document order, by index
RECURSIVE PreorderIds(_, _)
PreorderIds(nodes, list) ==
  IF list = <<>> THEN <<>>
  ELSE <<Head(list)>> \o PreorderIds(nodes, nodes[Head(list)].children)
                      \o PreorderIds(nodes, Tail(list))

\* the place in Forest(tree) of the node created from the tag at `offset`
\* of s, 0 when no node was created there
PlaceOfNodeAt(s, tree, offset) ==
  LET offs == NodeOffsets(s, 0)
      ids  == PreorderIds(tree.nodes, tree.roots)
      at   == {j \in 1..Len(ids) : ids[j] <= Len(offs) /\ offs[ids[j]] = offset}
  IN  IF at = {} THEN 0 ELSE CHOOSE j \in at : TRUE

\* a forest in document order without the node at place k and its subtree
WithoutSubtree(forest, k) ==
  IF k = 0 THEN forest
  ELSE LET after == {j \in (k + 1)..Len(forest) : forest[j].depth <= forest[k].depth}
           next  == IF after = {} THEN Len(forest) + 1
                    ELSE CHOOSE j \in after : \A i \in after : j <= i
       IN  SubSeq(forest, 1, k - 1) \o SubSeq(forest, next, Len(forest))

\* C10: delete round trip: the tree built from the text with the located
\* range removed is the tree of the original text without the node of the
\* located element and its subtree, all other nodes present in their order.
C10_DeleteRoundTrip ==
  pc = "removed" =>
    LET before == parseHTMLHierarchy(fullText)
    IN  Forest(rootElements)
          = WithoutSubtree(Forest(before),
                           PlaceOfNodeAt(fullText, before, elementRange.start))

----------------------------------------------------------------------------
(* Claims about the tree builder's loop                                    *)

\* a call of parseHTMLHierarchy is under way or has returned
Parsing == pc \in {"parsing", "parsed"}

\* the tag text the k-th node of a parse of s was created from
CreatedFrom(s, k) == tagRegexMatch(s, NodeOffsets(s, 0)[k])

\* the k-th node was created from a tag written '<... />' or from a tag whose
\* name is in the void element set
FromSelfClosingOrVoid(s, nodes, k) ==
  LET tag == CreatedFrom(s, k).fullMatch
  IN  \/ Substring(tag, Len(tag) - 2, Len(tag)) = <<"/", ">">>
      \/ nodes[k].tagName \in voidElements

\* is node k on the open-element stack
OnStack(st, k) == \E j \in 1..Len(st.stack) : st.stack[j] = k

\* C11: at every step of buildTree and in its result, a node created from a
\* self-closing tag or from a void-element name has an empty children list
\* and is not on the open-element stack.
C11_SelfClosingIsLeafOffStack ==
  Parsing =>
    \A k \in 1..Len(parse.nodes) :
      FromSelfClosingOrVoid(text, parse.nodes, k) =>
        /\ parse.nodes[k].children = <<>>
        /\ ~OnStack(parse, k)

\* C11 witness: inside an open element, a node was created from a
\* self-closing or void tag and another node was created after it.
C11_Witness ==
  /\ Parsing
  /\ \E k \in 1..Len(parse.nodes) :
        /\ FromSelfClosingOrVoid(text, parse.nodes, k)
        /\ k > 1
        /\ k < Len(parse.nodes)
        /\ OnStack(parse, 1)

\* a forest: the root list and every children list hold objects of the parse
IsForest(tree) ==
  /\ \A j \in 1..Len(tree.roots) : tree.roots[j] \in 1..Len(tree.nodes)
  /\ \A k \in 1..Len(tree.nodes) :
        \A j \in 1..Len(tree.nodes[k].children) :
          tree.nodes[k].children[j] \in 1..Len(tree.nodes)

\* C12: for every text, malformed, unbalanced or empty, and every offset from
\* 0 to its length, neither call ever raises an error: buildTree returns a
\* forest (the one the whole loop computes) and locateElement returns a range
\* or NOT_FOUND.
C12_NeverRaises ==
  /\ pc # "threw"
  /\ pc = "parsed" =>
       /\ IsForest(rootElements)
       /\ rootElements = parseHTMLHierarchy(text)
  /\ pc = "returned" =>
       /\ elementRange = findCompleteHtmlElement(text, cursorOffset)
       /\ \/ elementRange = Null
          \/ /\ elementRange.found
             /\ elementRange.start \in 0..Len(text)
             /\ elementRange.end \in 0..Len(text)

\* C12 witness: buildTree has returned for a text that starts with a closing
\* tag, met on an empty stack, and still holds an element.
C12_Witness ==
  /\ pc = "parsed"
  /\ Substring(text, 0, 2) = <<"<", "/">>
  /\ rootElements.roots # <<>>

\* the DOCTYPE declarations of a document, as [startOffset, endOffset)
DoctypeBlocks(s) ==
  { [ startOffset |-> p,
      endOffset   |-> IF indexOf(s, <<">">>, p) = -1 THEN Len(s)
                      ELSE indexOf(s, <<">">>, p) + 1 ]
    : p \in {q \in 0..(Len(s) - 1) : IsDoctypeStart(s, q)} }

\* offset p lies between a '<!--' and its '-->' or in a '<!DOCTYPE ...>'
InSkippedMarkup(s, p) ==
  \E c \in CommentBlocks(s, 0) \cup DoctypeBlocks(s) :
    c.startOffset <= p /\ p < c.endOffset

\* C13: buildTree skips comments and the DOCTYPE declaration: a loop
\* iteration whose tag text lies between '<!--' and '-->' or in
\* '<!DOCTYPE ...>' creates no node and leaves the open-element stack (and
\* every list) as it was.
C13_CommentsAndDoctypeSkipped ==
  [][ ( /\ ParseStep
        /\ InSkippedMarkup(text, tagRegexExec(text, tagRegex.lastIndex)) )
      => parse' = parse ]_vars

\* a character of an attribute name: anything but white space, '=', '>', '/'
\* and the quotes
IsAttrNameChar(c) ==
  c \notin {" ", "\t", "\n", "\r", "=", ">", "/", "\"", "'", Undefined}

RECURSIVE AttrNameEnd(_, _)
AttrNameEnd(a, p) ==
  IF p < Len(a) /\ IsAttrNameChar(a[p + 1]) THEN AttrNameEnd(a, p + 1) ELSE p

RECURSIVE NonSpaceRunEnd(_, _)
NonSpaceRunEnd(a, p) ==
  IF p < Len(a) /\ ~IsSpace(a[p + 1]) THEN NonSpaceRunEnd(a, p + 1) ELSE p

\* the attributes written in attributesRaw from offset p on, in order, each
\* with its name, whether its value is quoted, and the value
RECURSIVE AttributesFrom(_, _)
AttributesFrom(a, p) ==
  IF p >= Len(a) THEN <<>>
  ELSE IF ~IsAttrNameChar(a[p + 1]) THEN AttributesFrom(a, p + 1)
  ELSE
    LET nameEnd == AttrNameEnd(a, p)
        eq      == SpaceRunEnd(a, nameEnd)
        v       == SpaceRunEnd(a, eq + 1)
        close   == indexOf(a, <<At(a, v)>>, v + 1)
        vEnd    == IF close = -1 THEN Len(a) ELSE close
        name    == toLowerCase(Substring(a, p, nameEnd))
    IN  IF At(a, eq) # "="
          THEN <<[name |-> name, quoted |-> FALSE, value |-> <<>>]>>
                 \o AttributesFrom(a, nameEnd)
        ELSE IF At(a, v) \in {"\"", "'"}
          THEN <<[name |-> name, quoted |-> TRUE,
                  value |-> Substring(a, v + 1, vEnd)]>>
                 \o AttributesFrom(a, vEnd + 1)
        ELSE <<[name |-> name, quoted |-> FALSE,
                value |-> Substring(a, v, NonSpaceRunEnd(a, v))]>>
               \o AttributesFrom(a, NonSpaceRunEnd(a, v))

\* the quoted value of the first attribute named N of the opening tag at
\* offset p of s; empty (absent) when the tag has no attribute named N or
\* its value is not quoted
QuotedValueOf(s, p, N) ==
  LET tok   == TagToken(s, p)
      raw   == Substring(s, NameRunEnd(s, p + 1), tok.endOffset - 1)
      attrs == AttributesFrom(raw, 0)
      named == {j \in 1..Len(attrs) : attrs[j].name = N}
      first == CHOOSE j \in named : \A h \in named : j <= h
  IN  IF named = {} THEN <<>>
      ELSE IF attrs[first].quoted THEN attrs[first].value
      ELSE <<>>

\* C14: for every opening tag, the node's id is the quoted value of the
\* tag's attribute named id and its primary display class is the first
\* space-separated name of the quoted value of the attribute named class; an
\* unquoted or missing id or class gives an empty value; for
\* '<span class="foo bar" id="s1">' the id is 's1' and the first class 'foo'.
C14_AttributeExtraction ==
  Parsing =>
    /\ \A k \in 1..Len(parse.nodes) :
         LET p == NodeOffsets(text, 0)[k]
         IN  ScanTagAt(text, p) =>
               /\ parse.nodes[k].elementId = QuotedValueOf(text, p, <<"i","d">>)
               /\ FirstClass(parse.nodes[k].className)
                    = FirstClass(QuotedValueOf(text, p, <<"c","l","a","s","s">>))
    /\ (text = SpanDoc /\ pc = "parsed") =>
         /\ parse.nodes[1].elementId = <<"s","1">>
         /\ FirstClass(parse.nodes[1].className) = <<"f","o","o">>

\* a list of nodes is in document order: the opening tags its nodes were
\* created from appear in the text in the order of the list
InDocumentOrder(s, list) ==
  \A j, h \in 1..Len(list) :
    j < h => NodeOffsets(s, 0)[list[j]] < NodeOffsets(s, 0)[list[h]]

\* C15: the root list and every node's children list are in document order.
C15_ListsInDocumentOrder ==
  Parsing =>
    /\ InDocumentOrder(text, parse.roots)
    /\ \A k \in 1..Len(parse.nodes) :
         InDocumentOrder(text, parse.nodes[k].children)

\* C15 witness: the result has two roots and a node with three children.
C15_Witness ==
  /\ pc = "parsed"
  /\ Len(parse.roots) >= 2
  /\ \E k \in 1..Len(parse.nodes) : Len(parse.nodes[k].children) >= 3

\* how often node k occurs in a list
Occurrences(list, k) == Cardinality({j \in 1..Len(list) : list[j] = k})

\* how often node k occurs in the forest: in the root list and in the
\* children lists of all nodes
RECURSIVE OccurrencesInChildren(_, _, _)
OccurrencesInChildren(nodes, k, upTo) ==
  IF upTo = 0 THEN 0
  ELSE Occurrences(nodes[upTo].children, k)
         + OccurrencesInChildren(nodes, k, upTo - 1)

OccurrencesInForest(st, k) ==
  Occurrences(st.roots, k) + OccurrencesInChildren(st.nodes, k, Len(st.nodes))

\* the nodes reached from node k in 1 to n steps down the children lists
RECURSIVE Descendants(_, _, _)
Descendants(nodes, k, n) ==
  IF n = 0 THEN {}
  ELSE LET kids == {nodes[k].children[j] : j \in 1..Len(nodes[k].children)}
       IN  kids \cup UNION {Descendants(nodes, c, n - 1) : c \in kids}

\* C16: for every document, well-formed or not, every opening-tag token
\* produces exactly one node, every node occurs exactly once in the forest
\* (in the root list or in one children list), and no node is its own
\* ancestor.
C16_ForestIsTree ==
  Parsing =>
    /\ \A k \in 1..Len(parse.nodes) :
         /\ OccurrencesInForest(parse, k) = 1
         /\ k \notin Descendants(parse.nodes, k, Len(parse.nodes))
    /\ pc = "parsed" =>
         LET toks == ScanTokens(text, 0)
         IN  \A t \in 1..Len(toks) :
               ~toks[t].isClosing =>
                 Cardinality({k \in 1..Len(parse.nodes) :
                                NodeOffsets(text, 0)[k] = toks[t].startOffset}) = 1

\* a call of findCompleteHtmlElement is under way
Locating == pc \in {"backward", "forward", "classify", "closing"}

\* how many loop iterations and returns a call can still make at most: 0
\* once it has returned
StepsLeft ==
  CASE pc = "parsing"  -> (Len(text) - tagRegex.lastIndex) + 1
    [] pc = "backward" -> (locals.i + 2) + (2 * Len(text) + 4)
    [] pc = "forward"  -> (Len(text) - locals.i + 1) + (Len(text) + 2)
    [] pc = "classify" -> Len(text) + 2
    [] pc = "closing"  -> (Len(text) - locals.searchStart) + 1
    [] OTHER           -> 0

\* C17: every call of buildTree and of locateElement terminates: the token
\* scan advances past each match, the backward and forward anchor searches
\* move one character per iteration and stay within the text, the search
\* position of the depth loop strictly increases on every iteration, and
\* with every step of a call the number of steps it can still make, which is
\* never negative, decreases.
C17_CallsTerminate ==
  [][ /\ (ParseStep /\ pc' = "parsing") =>
           /\ tagRegex'.lastIndex > tagRegex.lastIndex
           /\ tagRegex'.lastIndex <= Len(text)
      /\ (BackwardStep /\ pc' = "backward") =>
           /\ locals'.i = locals.i - 1
           /\ locals.i <= Len(text)
      /\ (ForwardStep /\ pc' = "forward") =>
           /\ locals'.i = locals.i + 1
           /\ locals'.i <= Len(text)
      /\ (DepthStep /\ pc' = "closing") =>
           /\ locals'.searchStart > locals.searchStart
           /\ locals'.searchStart <= Len(text)
      /\ RunningStep =>
           /\ StepsLeft' < StepsLeft
           /\ StepsLeft' >= 0
           /\ pc' # "threw" ]_vars

\* C17 witness: the depth loop has met a nested opening tag and goes on.
C17_Witness ==
  /\ pc = "closing"
  /\ locals.depth >= 2
  /\ locals.searchStart < Len(text)

----------------------------------------------------------------------------
(* Claims about the remove-element command                                 *)

\* a step of the command that is not the applied edit
OtherCommandStep ==
  \/ CommandWithoutEditor
  \/ CommandOnOtherFile
  \/ \E o \in 0..Len(text) : CommandLocates(o)
  \/ PromptCancelled
  \/ EditRejected
  \/ WindowReloaded

\* C18: the command changes the document only when locateElement returned a
\* range and the user answered 'Remove', and then the document is the text
\* that was searched with exactly the characters [start, end) of the
\* returned range replaced by the empty string; in every other outcome the
\* command leaves the text unchanged, and on NOT_FOUND the error message is
\* shown.
C18_OnlyConfirmedRangeRemoved ==
  [][ /\ EditApplied =>
           /\ elementRange.found
           /\ text' = ReplaceRange(fullText, elementRange)
      /\ OtherCommandStep => text' = text
      /\ ((\E o \in 0..Len(text) : CommandLocates(o)) /\ ~elementRange'.found) =>
           /\ pc' = "finished"
           /\ message' = "Could not find a complete HTML element" ]_vars

\* C19: after a removal edit that was applied, once the views have been
\* refreshed the tree view shows the tree of the edited text.
C19_TreeShowsEditedText ==
  ( /\ pc = "finished"
    /\ message = "HTML element and its children removed successfully." )
  => rootElements = parseHTMLHierarchy(text)

-----------------------------------------------------------------------------
(* Backup and recovery: the files of the workspace folder, the backups kept  *)
(* in the whoAmI workspace settings, and the commands that write and read    *)
(* them. A path is the sequence of its segments below the workspace folder; *)
(* a content is a string. config.update is taken to store the value.        *)

RootHtml == <<"who_am_i.html">>
WorkspaceHtml == <<"who_am_i_workspace", "who_am_i.html">>
WorkspaceCss == <<"who_am_i_workspace", "who_am_i.css">>
WorkspaceJs == <<"who_am_i_workspace", "who_am_i.js">>

\* the list backupOriginalFiles walks through for a folder
filesToBackup == <<RootHtml, WorkspaceHtml, WorkspaceCss, WorkspaceJs>>

\* the files a workspace of this specification has, and what they hold
Paths == {RootHtml, WorkspaceHtml, WorkspaceCss}
Contents == {"", "a", "b"}

\* no active editor
NoEditor == <<>>

\* path.basename
basename(filePath) == filePath[Len(filePath)]

\* `backup_${fileName}`
backupKey(fileName) == "backup_" \o fileName

\* config.get(backupKey) is truthy: the key is set, to a non-empty string
Truthy(config, key) == key \in DOMAIN config /\ config[key] # ""

\* object[key] = value
Put(object, key, value) == (key :> value) @@ object

\* backupSingleFile on the settings and the record of first backups
backupSingleFile(store, filePath) ==
  LET key == backupKey(basename(filePath))
      content == files[filePath]
  IN  IF ~Truthy(store.backups, key)
      THEN [backups |-> Put(store.backups, key, content),
            firstBackup |->
              IF filePath \in DOMAIN store.firstBackup
              THEN store.firstBackup
              ELSE Put(store.firstBackup, filePath, content)]
      ELSE store

\* the loop of backupOriginalFiles over filesToBackup from index k on
RECURSIVE backupFrom(_, _)
backupFrom(store, k) ==
  IF k > Len(filesToBackup) THEN store
  ELSE IF filesToBackup[k] \in DOMAIN files
       THEN backupFrom(backupSingleFile(store, filesToBackup[k]), k + 1)
       ELSE backupFrom(store, k + 1)

\* getBackupContent: the stored string, or null (here "") when it is falsy
getBackupContent(fileUri) ==
  LET key == backupKey(basename(fileUri))
  IN  IF Truthy(backups, key) THEN backups[key] ELSE ""

BackupInit ==
  /\ files \in UNION {[S -> Contents] : S \in SUBSET Paths}
  /\ backups = <<>>
  /\ firstBackup = <<>>
  /\ editor = NoEditor
  /\ message = "none"
  /\ pc = "idle"
  /\ text = <<>>
  /\ rootElements = <<>>
  /\ cursorOffset = 0
  /\ fullText = <<>>
  /\ elementRange = Null
  /\ activeFile = "none"
  /\ rootFile = <<>>
  /\ NoCall
  /\ NoPage

BackupFrame ==
  UNCHANGED <<cmdVars, buildVars, locateVars, activeFile, rootFile, pageVars>>

\* activate: backupOriginalFiles()
Activate ==
  LET store == backupFrom([backups |-> backups, firstBackup |-> firstBackup], 1)
  IN  /\ backups' = store.backups
      /\ firstBackup' = store.firstBackup
      /\ UNCHANGED <<files, editor, message>>
      /\ BackupFrame

\* the user opens a file of the workspace in the editor, or closes the editor
OpenEditor(filePath) ==
  /\ editor' = filePath
  /\ editor' # editor
  /\ UNCHANGED <<files, backups, firstBackup, message>>
  /\ BackupFrame

\* the user changes the file in the editor and saves it
EditFile(content) ==
  /\ editor # NoEditor
  /\ files[editor] # content
  /\ files' = [files EXCEPT ![editor] = content]
  /\ UNCHANGED <<backups, firstBackup, editor, message>>
  /\ BackupFrame

\* helloworld.backupCurrentFile without an active editor
BackupWithoutEditor ==
  /\ editor = NoEditor
  /\ message' = "No active editor found. Please open a file to backup."
  /\ UNCHANGED <<files, backups, firstBackup, editor>>
  /\ BackupFrame

\* helloworld.backupCurrentFile
BackupCurrentFile ==
  /\ editor # NoEditor
  /\ LET store == backupSingleFile([backups |-> backups,
                                    firstBackup |-> firstBackup], editor)
     IN  /\ backups' = store.backups
         /\ firstBackup' = store.firstBackup
  /\ message' = "has been backed up successfully."
  /\ UNCHANGED <<files, editor>>
  /\ BackupFrame

\* helloworld.recoverOriginalFile without an active editor
RecoverWithoutEditor ==
  /\ editor = NoEditor
  /\ message' = "No active editor found. Please open the file you want to recover."
  /\ UNCHANGED <<files, backups, firstBackup, editor>>
  /\ BackupFrame

\* helloworld.recoverOriginalFile: getBackupContent gave a falsy value
RecoverWithoutBackup ==
  /\ editor # NoEditor
  /\ getBackupContent(editor) = ""
  /\ message' = "No backup found"
  /\ UNCHANGED <<files, backups, firstBackup, editor>>
  /\ BackupFrame

\* helloworld.recoverOriginalFile, answered 'Recover Original', edit applied
RecoverOriginalFile ==
  /\ editor # NoEditor
  /\ getBackupContent(editor) # ""
  /\ files' = [files EXCEPT ![editor] = getBackupContent(editor)]
  /\ message' = "has been recovered to its original state."
  /\ UNCHANGED <<backups, firstBackup, editor>>
  /\ BackupFrame

\* helloworld.recoverOriginalFile, answered 'Cancel' or dismissed
RecoverCancelled ==
  /\ editor # NoEditor
  /\ getBackupContent(editor) # ""
  /\ message' = "This will replace the current content"
  /\ UNCHANGED <<files, backups, firstBackup, editor>>
  /\ BackupFrame

\* helloworld.recoverOriginalFile, answered 'Recover Original', applyEdit
\* returned false
RecoverRejected ==
  /\ editor # NoEditor
  /\ getBackupContent(editor) # ""
  /\ message' = "Failed to recover the original file."
  /\ UNCHANGED <<files, backups, firstBackup, editor>>
  /\ BackupFrame

\* helloworld.clearBackups, answered 'Clear All Backups': every key that
\* starts with backup_ is removed
ClearBackups ==
  /\ backups' = <<>>
  /\ firstBackup' = <<>>
  /\ message' = "Cleared backup entries."
  /\ UNCHANGED <<files, editor>>
  /\ BackupFrame

\* helloworld.clearBackups, answered 'Cancel' or dismissed
ClearCancelled ==
  /\ message' = "This will permanently delete all backup files."
  /\ UNCHANGED <<files, backups, firstBackup, editor>>
  /\ BackupFrame

BackupNext ==
  \/ Activate
  \/ \E filePath \in DOMAIN files \cup {NoEditor} : OpenEditor(filePath)
  \/ \E content \in Contents : EditFile(content)
  \/ BackupWithoutEditor
  \/ BackupCurrentFile
  \/ RecoverWithoutEditor
  \/ RecoverWithoutBackup
  \/ RecoverOriginalFile
  \/ RecoverCancelled
  \/ RecoverRejected
  \/ ClearBackups
  \/ ClearCancelled

BackupSpec == BackupInit /\ [][BackupNext]_vars

-----------------------------------------------------------------------------
(* Claims about backup and recovery                                         *)

\* C20: a confirmed and successful 'Recover original file' on file F sets
\* F's content to the content read from F itself when F was first backed up
\* (since the backups were last cleared); it never writes content that was
\* backed up from another file, and it reports 'No backup found' when F
\* itself was never backed up.
C20_RecoverWritesOwnFirstBackup ==
  [][ /\ RecoverOriginalFile =>
           /\ editor \in DOMAIN firstBackup
           /\ files'[editor] = firstBackup[editor]
      /\ ( /\ editor # NoEditor
           /\ editor \notin DOMAIN firstBackup
           /\ \/ RecoverWithoutBackup
              \/ RecoverOriginalFile
              \/ RecoverCancelled
              \/ RecoverRejected )
         => message' = "No backup found" ]_vars

\* C21: the stored backup is write-once: once a backup exists under a key,
\* no activation and no 'backup current file' command changes its stored
\* content, whatever edits were made in between; only the confirmed 'clear
\* backups' command removes it.
C21_BackupWriteOnce ==
  [][ \A key \in DOMAIN backups :
        \/ ClearBackups
        \/ /\ key \in DOMAIN backups'
           /\ backups'[key] = backups[key] ]_vars

-----------------------------------------------------------------------------
(* Claims about one token of the tree builder                               *)

\* the loop of parseHTMLHierarchy is about to take another match
AtToken == pc = "parsing" /\ tagRegexExec(text, tagRegex.lastIndex) # -1

\* the match the loop takes next
NextToken == tagRegexMatch(text, tagRegexExec(text, tagRegex.lastIndex))

\* the next match is written as a closing tag
AtClosingToken == AtToken /\ Substring(NextToken.fullMatch, 0, 2) = <<"<", "/">>

\* the top of the stack carries the tag name of the next match
TopMatchesToken ==
  /\ Len(parse.stack) > 0
  /\ parse.nodes[parse.stack[Len(parse.stack)]].tagName = NextToken.tagName

\* C22: a closing-tag token pops exactly one element when the stack is
\* non-empty and the top's tagName equals the token's tag name; otherwise
\* the stack is left unchanged. In both cases it creates no node and changes
\* no children list or the root list.
C22_ClosingTagPopsMatchingTop ==
  [][ (AtClosingToken /\ ParseStep) =>
        /\ pc' = "parsing"
        /\ parse'.nodes = parse.nodes
        /\ parse'.roots = parse.roots
        /\ IF TopMatchesToken
             THEN /\ Len(parse'.stack) = Len(parse.stack) - 1
                  /\ \A j \in 1..Len(parse'.stack) : parse'.stack[j] = parse.stack[j]
             ELSE parse'.stack = parse.stack ]_vars

\* C22 witness: two elements are open and the next token closes the top one
C22_Witness ==
  /\ AtClosingToken
  /\ TopMatchesToken
  /\ Len(parse.stack) >= 2

\* the next match is written as an opening tag
AtOpeningToken == AtToken /\ ~AtClosingToken

\* the next match is written '<... />' or names a void element
TokenIsSelfClosingOrVoid ==
  LET tag == NextToken.fullMatch
  IN  \/ Substring(tag, Len(tag) - 2, Len(tag)) = <<"/", ">">>
      \/ NextToken.tagName \in voidElements

\* C23: each opening-tag token's node is appended to the children of the
\* element on top of the stack at that moment, or to the root list when the
\* stack is empty, and is then pushed onto the stack if and only if the tag
\* is neither self-closing nor a void element.
C23_OpeningTagAttachedAndPushed ==
  [][ (AtOpeningToken /\ ParseStep) =>
        LET element == Len(parse.nodes) + 1
            top     == parse.stack[Len(parse.stack)]
        IN  /\ pc' = "parsing"
            /\ Len(parse'.nodes) = element
            /\ parse'.nodes[element].children = <<>>
            /\ IF Len(parse.stack) > 0
                 THEN /\ parse'.nodes[top].children =
                           Append(parse.nodes[top].children, element)
                      /\ parse'.roots = parse.roots
                      /\ \A k \in 1..Len(parse.nodes) :
                           k # top =>
                             parse'.nodes[k].children = parse.nodes[k].children
                 ELSE /\ parse'.roots = Append(parse.roots, element)
                      /\ \A k \in 1..Len(parse.nodes) :
                           parse'.nodes[k].children = parse.nodes[k].children
            /\ parse'.stack = IF TokenIsSelfClosingOrVoid
                                THEN parse.stack
                                ELSE Append(parse.stack, element) ]_vars

\* C23 witness: a root was pushed, a second element was attached to it and
\* pushed, and a void element was attached to the second and not pushed
C23_Witness ==
  /\ pc = "parsing"
  /\ Len(parse.nodes) = 3
  /\ Len(parse.stack) = 2
  /\ parse.stack[2] = 2
  /\ parse.nodes[2].children = <<3>>
  /\ parse.roots = <<1>>

-----------------------------------------------------------------------------
(* Claims about elements left open                                          *)

\* the elements left open on the stack when parseHTMLHierarchy returns
LeftOpen == {k \in 1..Len(parse.nodes) : OnStack(parse, k)}

\* C24 as stated: an element whose closing tag never appears (left open on
\* the stack at end of document) is a childless leaf in the returned tree,
\* and no error is reported.
C24_UnterminatedIsChildlessLeaf ==
  /\ pc # "threw"
  /\ pc = "parsed" =>
       \A k \in LeftOpen : rootElements.nodes[k].children = <<>>

\* C24 amended: an element left open on the stack at end of document is in
\* the returned tree as the ancestor of every element that opens after it,
\* so it is a childless leaf only when no opening tag follows it; no error
\* is reported.
C24_UnterminatedHoldsLaterElements ==
  /\ pc # "threw"
  /\ pc = "parsed" =>
       \A k \in LeftOpen :
         /\ OccurrencesInForest(parse, k) = 1
         /\ Descendants(rootElements.nodes, k, Len(rootElements.nodes))
              = (k + 1)..Len(rootElements.nodes)
         /\ (rootElements.nodes[k].children = <<>>)
              <=> (k = Len(rootElements.nodes))

\* C24 witness: the call returned with two elements left open, the second
\* opened inside the first, and another element after them
C24_Witness ==
  /\ pc = "parsed"
  /\ Len(parse.stack) = 2
  /\ Len(rootElements.nodes) = 3

-----------------------------------------------------------------------------
(* Claims about the anchor search                                           *)

\* a complete closing tag of s lies wholly between the opening tag at start
\* and the offset
ClosingTagBetween(s, start, offset) ==
  \E k \in 1..Len(ScanTokens(s, 0)) :
    LET tok == ScanTokens(s, 0)[k]
    IN  /\ tok.isClosing
        /\ tok.startOffset > start
        /\ tok.endOffset <= offset

\* C25: if, scanning backward from the offset, a complete closing tag is met
\* before any valid opening tag, the backward search ends without an anchor;
\* so a returned range never starts at an opening tag that lies before a
\* closing tag located wholly between that opening tag and the offset.
C25_BackwardStopsAtClosingTag ==
  /\ (pc = "classify" /\ locals.tagStart <= cursorOffset) =>
       ~ClosingTagBetween(text, locals.tagStart, cursorOffset)
  /\ (pc = "returned" /\ elementRange.found) =>
       ~ClosingTagBetween(text, elementRange.start, cursorOffset)

\* a valid opening tag starts at offset p of s: a tag that is neither a
\* closing tag nor a comment start
ValidOpeningAt(s, p) == ScanTagAt(s, p) /\ At(s, p + 1) # "/"

\* C26: the anchor is the nearest valid opening tag whose '<' is at or
\* before the offset when the backward search finds one; only when the
\* backward search finds none is it the nearest valid opening tag whose '<'
\* is at or after the offset; when neither search finds an opening tag the
\* result is NOT_FOUND. Closing tags and comment starts are never chosen.
C26_AnchorSelectionOrder ==
  [][ /\ (pc = "backward" /\ pc' = "classify") =>
           /\ locals'.tagStart <= cursorOffset
           /\ ValidOpeningAt(text, locals'.tagStart)
           /\ \A q \in (locals'.tagStart + 1)..cursorOffset :
                ~ValidOpeningAt(text, q)
      /\ (pc = "backward" /\ pc' = "forward") => locals'.tagStart = -1
      /\ (pc = "forward" /\ pc' = "classify") =>
           /\ locals.tagStart = -1
           /\ locals'.tagStart >= cursorOffset
           /\ ValidOpeningAt(text, locals'.tagStart)
           /\ \A q \in cursorOffset..(locals'.tagStart - 1) :
                ~ValidOpeningAt(text, q)
      /\ (pc = "forward" /\ pc' = "returned") =>
           /\ elementRange' = Null
           /\ \A q \in cursorOffset..Len(text) : ~ValidOpeningAt(text, q)
      /\ pc' = "classify" => pc \in {"backward", "forward"} ]_vars

\* C26 witness: the backward search was stopped by a closing tag although an
\* opening tag lies before the offset, and the forward search found the
\* anchor after the offset
C26_Witness ==
  /\ pc = "classify"
  /\ locals.tagStart > cursorOffset
  /\ \E q \in 0..cursorOffset : ValidOpeningAt(text, q)

-----------------------------------------------------------------------------
(* Claims about the closing-tag search                                      *)

\* an opening occurrence of the name T at offset p: '<T' followed by white
\* space or '>', in any letter case
OpeningOccursAt(s, T, p) ==
  /\ toLowerCase(Substring(s, p, p + 1 + Len(T))) = <<"<">> \o T
  /\ (IsSpace(At(s, p + 1 + Len(T))) \/ At(s, p + 1 + Len(T)) = ">")

\* a closing occurrence of the name T at offset p: '</T>', in any letter case
ClosingOccursAt(s, T, p) ==
  toLowerCase(Substring(s, p, p + 3 + Len(T))) = <<"<", "/">> \o T \o <<">">>

\* counting the occurrences of T from offset p on in the order of their
\* offsets, starting at the given depth: the end (exclusive) of the closing
\* occurrence that brings the depth from 1 to 0, or -1 when there is none
RECURSIVE EndOfElement(_, _, _, _)
EndOfElement(s, T, p, depth) ==
  IF p >= Len(s) THEN -1
  ELSE IF OpeningOccursAt(s, T, p) THEN EndOfElement(s, T, p + 1, depth + 1)
  ELSE IF ClosingOccursAt(s, T, p)
    THEN IF depth = 1 THEN p + 3 + Len(T)
         ELSE EndOfElement(s, T, p + 1, depth - 1)
  ELSE EndOfElement(s, T, p + 1, depth)

\* C27: in the closing-tag search for an anchor named T only occurrences of
\* '<T' followed by white space or '>' (depth + 1) and of '</T>' (depth - 1)
\* are counted, the nearer one first, and the range ends at the '</T>' that
\* brings the depth from 1 to 0; tags of any other name between the anchor
\* and that closing tag do not change which closing tag ends the range or
\* whether a range is found.
C27_SameNameDepthCounting ==
  [][ (pc = "closing" /\ pc' = "returned") =>
        LET T    == tagNameAt(text, locals.tagStart)
            from == indexOf(text, <<">">>, locals.tagStart) + 1
            end  == EndOfElement(text, T, from, 1)
        IN  elementRange' = IF end = -1 THEN Null
                            ELSE ElementRange(locals.tagStart, end) ]_vars

-----------------------------------------------------------------------------
(* Claims that compare the tree builder and the element-range locator       *)

\* C28: both recognise tags by the same pattern: for every opening tag text
\* the tag name buildTree stores on the node equals the tag name
\* locateElement derives for the anchor, namely the lower-cased run of an
\* ASCII letter followed by letters, digits and hyphens ('<my-widget>' has
\* the tag name 'my-widget' in both).
C28_SameTagNameInBoth ==
  pc = "parsed" =>
    \A k \in 1..Len(rootElements.nodes) :
      LET p == NodeOffsets(text, 0)[k]
      IN  ValidOpeningAt(text, p) =>
            /\ rootElements.nodes[k].tagName = tagNameAt(text, p)
            /\ tagNameAt(text, p) = TagToken(text, p).tagName

\* C29: locateElement matches the closing tag of its anchor without regard
\* to letter case: the result for a text is the result for the same text in
\* lower case, and for '<DIV>x</DIV>' every offset gives the range of the
\* whole element, which buildTree treats as one closed element.
C29_ClosingTagCaseInsensitive ==
  pc = "returned" =>
    /\ elementRange = findCompleteHtmlElement(toLowerCase(text), cursorOffset)
    /\ text = UpperDivDoc => elementRange = ElementRange(0, Len(text))

-----------------------------------------------------------------------------
(* The web page script: the WhoAmI object, the elements it shows and hides, *)
(* and the fetch requests in flight. A request is answered at any later     *)
(* moment, successfully or not; the buttons call the methods through the    *)
(* click listeners, and a disabled button calls nothing.                    *)

\* null, and the empty textContent of an element
NoValue == "null"

\* the public addresses api.ipify.org can answer with
IpAddresses == {"ip1", "ip2"}

\* the messages showError is called with
IpErrorMessage == "Failed to get your IP address."
DetailsErrorMessage == "Failed to get location details."
NoIpErrorMessage == "Please get your IP address first."

\* new WhoAmI(): the fields set by the constructor
NewWhoAmI == [ipAddress |-> NoValue, locationData |-> NoValue]

\* the elements the script changes, as the page is loaded: which carry the
\* class 'hidden', which button is disabled, and the text of the address,
\* the details and the error message
LoadedPage ==
  [ ipDisplayHidden      |-> TRUE,
    ipAddressText        |-> NoValue,
    detailsSectionHidden |-> TRUE,
    detailsDisplayHidden |-> TRUE,
    detailsText          |-> NoValue,
    errorSectionHidden   |-> TRUE,
    errorMessage         |-> NoValue,
    ipBtnDisabled        |-> FALSE,
    detailsBtnDisabled   |-> FALSE ]

\* a fetch in flight: the API, the address its URL was built from, and
\* whether retry has run since it was started
Request(api, ip) == [api |-> api, ip |-> ip, beforeRetry |-> FALSE]

PageInit ==
  /\ app = NewWhoAmI
  /\ page = LoadedPage
  /\ pending = {}
  /\ text = <<>>
  /\ rootElements = <<>>
  /\ pc = "idle"
  /\ cursorOffset = 0
  /\ fullText = <<>>
  /\ elementRange = Null
  /\ NoCall
  /\ NoEnvironment
  /\ NoBackups

PageFrame ==
  UNCHANGED <<cmdVars, buildVars, locateVars, envVars, backupVars>>

\* getIpAddress up to its first await: showLoading('ip'), hideError(), fetch
GetIpAddress ==
  /\ ~page.ipBtnDisabled
  /\ page' = [page EXCEPT !.ipBtnDisabled = TRUE, !.errorSectionHidden = TRUE]
  /\ pending' = pending \cup {Request("ipify", NoValue)}
  /\ UNCHANGED app
  /\ PageFrame

\* getIpAddress after its awaits, response.ok: this.ipAddress = data.ip,
\* hideLoading('ip'), displayIpAddress, showDetailsSection
IpResponse(r, ip) ==
  /\ r \in pending
  /\ r.api = "ipify"
  /\ pending' = pending \ {r}
  /\ app' = [app EXCEPT !.ipAddress = ip]
  /\ page' = [page EXCEPT !.ipBtnDisabled = FALSE,
                          !.ipAddressText = ip,
                          !.ipDisplayHidden = FALSE,
                          !.detailsSectionHidden = FALSE]
  /\ PageFrame

\* getIpAddress after its await, the fetch failed or !response.ok: the catch
IpResponseFailed(r) ==
  /\ r \in pending
  /\ r.api = "ipify"
  /\ pending' = pending \ {r}
  /\ page' = [page EXCEPT !.ipBtnDisabled = FALSE,
                          !.errorMessage = IpErrorMessage,
                          !.errorSectionHidden = FALSE]
  /\ UNCHANGED app
  /\ PageFrame

\* getLocationDetails up to its first await: the early return without an
\* address, else showLoading('details'), hideError(), fetch
GetLocationDetails ==
  /\ ~page.detailsBtnDisabled
  /\ IF app.ipAddress = NoValue
       THEN /\ page' = [page EXCEPT !.errorMessage = NoIpErrorMessage,
                                    !.errorSectionHidden = FALSE]
            /\ UNCHANGED pending
       ELSE /\ page' = [page EXCEPT !.detailsBtnDisabled = TRUE,
                                    !.errorSectionHidden = TRUE]
            /\ pending' = pending \cup {Request("ipinfo", app.ipAddress)}
  /\ UNCHANGED app
  /\ PageFrame

\* getLocationDetails after its awaits, response.ok: this.locationData =
\* data, hideLoading('details'), displayLocationDetails(data)
DetailsResponse(r) ==
  /\ r \in pending
  /\ r.api = "ipinfo"
  /\ pending' = pending \ {r}
  /\ app' = [app EXCEPT !.locationData = r.ip]
  /\ page' = [page EXCEPT !.detailsBtnDisabled = FALSE,
                          !.detailsText = r.ip,
                          !.detailsDisplayHidden = FALSE]
  /\ PageFrame

\* getLocationDetails after its await, the fetch failed or !response.ok
DetailsResponseFailed(r) ==
  /\ r \in pending
  /\ r.api = "ipinfo"
  /\ pending' = pending \ {r}
  /\ page' = [page EXCEPT !.detailsBtnDisabled = FALSE,
                          !.errorMessage = DetailsErrorMessage,
                          !.errorSectionHidden = FALSE]
  /\ UNCHANGED app
  /\ PageFrame

\* retry(): hideError, reset both fields, hide the three displays, clear the
\* shown values; the requests in flight stay in flight
Retry ==
  /\ app' = NewWhoAmI
  /\ page' = [page EXCEPT !.errorSectionHidden = TRUE,
                          !.ipDisplayHidden = TRUE,
                          !.detailsSectionHidden = TRUE,
                          !.detailsDisplayHidden = TRUE,
                          !.ipAddressText = NoValue,
                          !.detailsText = NoValue]
  /\ pending' = {[r EXCEPT !.beforeRetry = TRUE] : r \in pending}
  /\ PageFrame

PageNext ==
  \/ GetIpAddress
  \/ \E r \in pending, ip \in IpAddresses : IpResponse(r, ip)
  \/ \E r \in pending : IpResponseFailed(r)
  \/ GetLocationDetails
  \/ \E r \in pending : DetailsResponse(r)
  \/ \E r \in pending : DetailsResponseFailed(r)
  \/ Retry

PageSpec == PageInit /\ [][PageNext]_vars

-----------------------------------------------------------------------------
(* Claims about the web page script                                         *)

\* C30: under every interleaving of getIpAddress, getLocationDetails, retry
\* and the arrival of their pending responses, whenever locationData is
\* non-null (location details are displayed) ipAddress is non-null and
\* locationData was fetched for the current ipAddress; after retry both stay
\* null and nothing is redisplayed until a new request is started.
C30_DetailsBelongToCurrentAddress ==
  [][ /\ app'.locationData # NoValue =>
           /\ app'.ipAddress # NoValue
           /\ app'.locationData = app'.ipAddress
      /\ ~page'.detailsDisplayHidden => page'.detailsText = app'.ipAddress
      /\ \A r \in pending :
           ( /\ r.beforeRetry
             /\ r \notin pending'
             /\ app = NewWhoAmI )
           => /\ app' = NewWhoAmI
              /\ page'.ipDisplayHidden = page.ipDisplayHidden
              /\ page'.detailsDisplayHidden = page.detailsDisplayHidden ]_vars

=============================================================================
